---- MODULE Spec2Model ----
(***************************************************************************)
(* FinTrack: the transaction log, the per-(owner, category, month, year)   *)
(* budget ledger and the category directory, as maintained by              *)
(* TransactionService (create / update / delete), Budget.updateSpent and   *)
(* CategoryService.                                                        *)
(*                                                                         *)
(* Spec      : request handlers run one at a time, each as one action.     *)
(* SpecConc  : handlers run concurrently, interleaved at their awaits.     *)
(***************************************************************************)
EXTENDS Integers, FiniteSets, Sequences, TLC

\* ------------------------------------------------------------------ bounds
MaxTxn == 2
MaxAmount == 1
MaxOps == 2
MaxProcs == 2
MaxRequests == 3

\* ------------------------------------------------------------ value spaces
Users == {"u1", "u2"}
Types == {"income", "expense"}
\* amounts a request can carry: zero (falsy in JavaScript) and a positive one
Amounts == {0, MaxAmount}

\* Category names.  The two defaults that TransactionService refers to are
\* inserted for every user at registration; "Groceries" is user-defined.
DefaultCategories == {"Other Income", "Other Expense"}
CatNames == DefaultCategories \cup {"Groceries"}

\* A request field that is not supplied (undefined in the request body).
NoCategory == "-"
NoType == "-"
NoAmount == -1
NoDate == -1

\* Dates are day numbers counted from 2024-01-01 (day 0):
\* 30 = 2024-01-31, 31 = 2024-02-01.
Dates == {30, 31}

IsLeap(y) == (y % 4 = 0 /\ y % 100 # 0) \/ y % 400 = 0

DaysInMonth(y, m) ==
    IF m = 2 THEN (IF IsLeap(y) THEN 29 ELSE 28)
    ELSE IF m \in {4, 6, 9, 11} THEN 30 ELSE 31

RECURSIVE CivilFromDays(_, _, _)
CivilFromDays(d, y, m) ==
    IF d < DaysInMonth(y, m) THEN [year |-> y, month |-> m]
    ELSE CivilFromDays(d - DaysInMonth(y, m),
                       IF m = 12 THEN y + 1 ELSE y,
                       IF m = 12 THEN 1 ELSE m + 1)

\* date.getMonth() + 1
GetMonth(d) == CivilFromDays(d, 2024, 1).month
\* date.getFullYear()
GetFullYear(d) == CivilFromDays(d, 2024, 1).year

\* ------------------------------------------------------------------- state
VARIABLES
    transactions,   \* Transaction collection: _id -> document
    nextId,         \* next fresh _id (ids are never reused)
    budgets,        \* Budget collection: <<userId, category, month, year>> -> row
    categories,     \* Category collection: set of <<userId, name>>
    result,         \* what the last handler was called with and returned
    nops,           \* number of handler calls made so far
    catWritten,     \* _id -> whether the category last written to the
                    \* document existed for its owner at that moment
    procs,          \* SpecConc: the in-flight request of each event-loop task
    applied,        \* SpecConc: ledger key -> sum of the amounts of the
                    \* updateSpent calls that returned successfully
    observed,       \* SpecConc: the last ledger row read by a reader
    redis,          \* RedisClient: state of this.client
    cache,          \* Redis keyspace: cache key -> stored string
    reply,          \* what the last AnalyticsService read was asked and returned
    nreads,         \* number of AnalyticsService reads made so far
    clock,          \* the wall clock in seconds, as Redis counts expiry
    expireAt,       \* Redis keyspace: cache key -> second at which it expires
    ledgerLog,      \* SpecTtl: the transaction log as each completed write
                    \* left it, with the second of the write
    now,            \* the wall clock, as a day number
    healthScores,   \* FinancialHealth collection, in insertion order
    forecasts,      \* Forecast collection, in insertion order
    call,           \* what the last health / forecast pipeline call returned
    ncalls,         \* number of pipeline calls and clock ticks made so far
    sweep,          \* the scheduler run in progress (a cron callback)
    nruns,          \* number of scheduler runs started so far
    goals,          \* Goal collection: _id -> document
    goalResult,     \* what the last GoalService call was asked and returned
    ngoalOps        \* number of GoalService calls made so far

seqVars == <<result, catWritten>>
concVars == <<procs, applied, observed>>
ledgerVars == <<transactions, nextId, budgets, categories, result, nops, catWritten>>
cacheVars == <<redis, cache, reply, nreads, clock, expireAt, ledgerLog>>
scoreVars == <<now, healthScores, forecasts, call, ncalls>>
sweepVars == <<sweep, nruns>>
goalVars == <<goals, goalResult, ngoalOps>>
vars == <<transactions, nextId, budgets, categories, result, nops, catWritten,
          procs, applied, observed, cacheVars, scoreVars, sweepVars, goalVars>>

TxnIds == 1..MaxTxn

NoResult == [op |-> "none", userId |-> "-", id |-> 0, outcome |-> "-",
             category |-> NoCategory, prediction |-> "-"]

\* Predictor outcomes: null (error or timeout) or a predicted category name.
Unavailable == "unavailable"
NotCalled == "-"
\* "Groceries" stands for any predicted name; it may or may not be one of
\* the owner's categories.
Predictions == {Unavailable, "Groceries"}

\* ----------------------------------------------------------- budget ledger
BudgetKey(userId, category, date) ==
    <<userId, category, GetMonth(date), GetFullYear(date)>>

\* Budget.getOrCreate: findOne, then create({amount: 0}) (spent defaults to 0).
GetOrCreate(b, key) ==
    IF key \in DOMAIN b THEN b
    ELSE [k \in DOMAIN b \cup {key} |->
            IF k = key THEN [amount |-> 0, spent |-> 0] ELSE b[k]]

\* The schema validator run by budget.save(): spent has min 0.
SpentValid(s) == s >= 0

\* Budget.updateSpent run without interruption.  The row is created first;
\* save() rejects a negative spent and then leaves the stored row as it was.
UpdateSpent(b, key, amount) ==
    LET b1 == GetOrCreate(b, key)
        s == b1[key].spent + amount
    IN IF SpentValid(s)
       THEN [ok |-> TRUE, budgets |-> [b1 EXCEPT ![key].spent = s]]
       ELSE [ok |-> FALSE, budgets |-> b1]

\* spent of a ledger row, 0 when the row does not exist
Spent(b, key) == IF key \in DOMAIN b THEN b[key].spent ELSE 0

\* -------------------------------------------------------------- categories
\* categoryRepository.findByName
FindByName(cats, userId, name) == <<userId, name>> \in cats

\* The existence check left out.
CategoryRejectedNever(cats, userId, category) == FALSE

\* TransactionService.create, "Validate category exists for user"
CategoryRejected(cats, userId, category) ==
    category # NoCategory /\ ~FindByName(cats, userId, category)

\* ------------------------------------------------------------ transactions
\* JavaScript truthiness of the two patch fields the update guard tests
TruthyAmount(a) == a # NoAmount /\ a # 0
TruthyCategory(c) == c # NoCategory

\* The new document built without the `|| 'Other Expense'` default.
FinalCategoryNoDefault(type, category, prediction) ==
    IF category # NoCategory THEN category
    ELSE IF prediction # Unavailable THEN prediction
    ELSE NoCategory

\* TransactionService.create: category and categorySource of the new
\* document.  mlService.predictCategory swallows every error and returns
\* null, so the catch branch of create is never taken.
FinalCategory(type, category, prediction) ==
    IF category # NoCategory THEN category
    ELSE IF prediction # Unavailable THEN prediction
    ELSE "Other Expense"

FinalSource(category, prediction) ==
    IF category # NoCategory THEN "user"
    ELSE IF prediction # Unavailable THEN "ai"
    ELSE "auto"

\* The ownership comparison left out.
OwnsAnyone(txn, userId) == TRUE

\* The Transaction schema validators run by save(): type is one of the
\* enum, amount has min 0, category is required.
SchemaValid(txn) ==
    /\ txn.type \in Types
    /\ txn.amount >= 0
    /\ txn.category # NoCategory

\* TransactionService.getById: ownership check
Owns(txn, userId) == txn.userId = userId

\* getById as a whole: repository findById throws NotFoundError when the
\* document is missing, the service when it is not owned by the caller.
Found(txns, userId, id) == id \in DOMAIN txns /\ Owns(txns[id], userId)

\* TransactionService.update: "If category or amount changed, update budget"
UpdateTouchesBudget(patch) ==
    TruthyCategory(patch.category) \/ TruthyAmount(patch.amount)

\* transactionRepository.update: findByIdAndUpdate(id, {$set: updateData});
\* updateData is the request body, so a body that names userId sets it too
ApplyPatch(txn, patch) ==
    [txn EXCEPT
        !.userId = IF "userId" \in DOMAIN patch THEN patch.userId ELSE @,
        !.amount = IF patch.amount # NoAmount THEN patch.amount ELSE @,
        !.category = IF patch.category # NoCategory THEN patch.category ELSE @,
        !.date = IF patch.date # NoDate THEN patch.date ELSE @,
        !.type = IF patch.type # NoType THEN patch.type ELSE @]

PatchCategories == {NoCategory, "Groceries"}
Patches ==
    [amount : Amounts \cup {NoAmount},
     category : PatchCategories,
     date : Dates \cup {NoDate},
     type : Types \cup {NoType}]

Insert(f, k, v) == [x \in DOMAIN f \cup {k} |-> IF x = k THEN v ELSE f[x]]
Remove(f, k) == [x \in DOMAIN f \ {k} |-> f[x]]

\* --------------------------------------------------- concurrent requests
Procs == 1..MaxProcs

NoDoc == [userId |-> "-", type |-> "-", amount |-> 0, category |-> "-",
          categorySource |-> "-", date |-> 0]
NoKey == <<"-", "-", 0, 0>>
NoPatch == [amount |-> NoAmount, category |-> NoCategory, date |-> NoDate,
            type |-> NoType]
\* findOne returned null
NullRow == -1

IdleProc ==
    [op |-> "idle", pc |-> "idle", userId |-> "-", id |-> 0,
     doc |-> NoDoc, supplied |-> NoCategory, prediction |-> NotCalled,
     patch |-> NoPatch,
     key |-> NoKey, delta |-> 0, row |-> NullRow, ret |-> "-",
     outcome |-> "-", pre |-> << >>, overlap |-> FALSE]

NoObservation == [key |-> NoKey, value |-> 0, during |-> {}]

InFlight(q) == procs[q].pc \notin {"idle", "done"}

\* ------------------------------------------------------------------- Init
\* null, undefined
Null == "null"

\* no AnalyticsService read made yet
NoReply == [fn |-> "-", key |-> Null, get |-> "-", set |-> "-",
            outcome |-> "-", value |-> Null]

\* the day the server is started: 2024-03-31 (day 90)
Today == 90

\* no pipeline call made yet
NoCall == [op |-> "-", userId |-> "-", outcome |-> "-", predictor |-> "-"]

\* no scheduler run in progress
NoSweep == [job |-> "-", items |-> << >>, idx |-> 0, invoked |-> << >>,
            succeeded |-> << >>, skipped |-> << >>,
            successCount |-> 0, errorCount |-> 0, status |-> "idle",
            report |-> Null]

\* no GoalService call made yet
NoGoalResult == [op |-> "-", id |-> 0, outcome |-> "-", repeats |-> FALSE]

\* Two registered users; AuthService.register has run
\* Category.initializeDefaults for each.
Init ==
    /\ transactions = << >>
    /\ nextId = 1
    /\ budgets = << >>
    /\ categories = Users \X DefaultCategories
    /\ result = NoResult
    /\ nops = 0
    /\ catWritten = << >>
    /\ procs = [p \in Procs |-> IdleProc]
    /\ applied = << >>
    /\ observed = NoObservation
    /\ redis = "none"
    /\ cache = << >>
    /\ reply = NoReply
    /\ nreads = 0
    /\ clock = 0
    /\ expireAt = << >>
    /\ ledgerLog = <<[at |-> 0, transactions |-> transactions]>>
    /\ now = Today
    /\ healthScores = << >>
    /\ forecasts = << >>
    /\ call = NoCall
    /\ ncalls = 0
    /\ sweep = NoSweep
    /\ nruns = 0
    /\ goals = << >>
    /\ goalResult = NoGoalResult
    /\ ngoalOps = 0

\* ------------------------------------------------- TransactionService.create
Create(userId, type, amount, date, category, prediction) ==
    /\ nops < MaxOps
    /\ UNCHANGED concVars
    /\ nextId <= MaxTxn
    /\ nops' = nops + 1
    /\ UNCHANGED categories
    /\ IF CategoryRejected(categories, userId, category)
       THEN /\ result' = [op |-> "create", userId |-> userId, id |-> 0,
                          outcome |-> "ValidationError",
                          category |-> category, prediction |-> NotCalled]
            /\ UNCHANGED <<transactions, nextId, budgets, catWritten>>
       ELSE LET cat == FinalCategory(type, category, prediction)
                txn == [userId |-> userId, type |-> type, amount |-> amount,
                        category |-> cat,
                        categorySource |-> FinalSource(category, prediction),
                        date |-> date]
                r == IF type = "expense"
                     THEN UpdateSpent(budgets, BudgetKey(userId, cat, date), amount)
                     ELSE [ok |-> TRUE, budgets |-> budgets]
                called == IF category = NoCategory THEN prediction ELSE NotCalled
            IN IF ~SchemaValid(txn)
               THEN /\ result' = [op |-> "create", userId |-> userId, id |-> 0,
                                  outcome |-> "MongooseValidationError",
                                  category |-> category, prediction |-> called]
                    /\ UNCHANGED <<transactions, nextId, budgets, catWritten>>
               ELSE /\ transactions' = Insert(transactions, nextId, txn)
                    /\ catWritten' = Insert(catWritten, nextId,
                                            FindByName(categories, userId, cat))
                    /\ nextId' = nextId + 1
                    /\ budgets' = r.budgets
                    /\ result' = [op |-> "create", userId |-> userId, id |-> nextId,
                                  outcome |-> IF r.ok THEN "ok"
                                              ELSE "MongooseValidationError",
                                  category |-> category, prediction |-> called]

\* ------------------------------------------------- TransactionService.update
Update(userId, id, patch) ==
    /\ nops < MaxOps
    /\ UNCHANGED concVars
    /\ nops' = nops + 1
    /\ UNCHANGED <<categories, nextId>>
    /\ IF ~Found(transactions, userId, id)
       THEN /\ result' = [op |-> "update", userId |-> userId, id |-> id,
                          outcome |-> "NotFoundError",
                          category |-> NoCategory, prediction |-> NotCalled]
            /\ UNCHANGED <<transactions, budgets, catWritten>>
       ELSE LET old == transactions[id]
                touch == UpdateTouchesBudget(patch) /\ old.type = "expense"
                newAmount == IF TruthyAmount(patch.amount) THEN patch.amount ELSE old.amount
                newCategory == IF TruthyCategory(patch.category) THEN patch.category ELSE old.category
                newDate == IF patch.date # NoDate THEN patch.date ELSE old.date
                r1 == IF touch
                      THEN UpdateSpent(budgets, BudgetKey(userId, old.category, old.date),
                                       0 - old.amount)
                      ELSE [ok |-> TRUE, budgets |-> budgets]
                r2 == IF touch /\ r1.ok
                      THEN UpdateSpent(r1.budgets, BudgetKey(userId, newCategory, newDate),
                                       newAmount)
                      ELSE r1
                doc == ApplyPatch(old, patch)
                \* findByIdAndUpdate with runValidators: true
                stored == r2.ok /\ SchemaValid(doc)
            IN /\ budgets' = r2.budgets
               /\ IF stored
                  THEN /\ transactions' = [transactions EXCEPT ![id] = doc]
                       /\ catWritten' = IF patch.category # NoCategory
                                        THEN [catWritten EXCEPT ![id] =
                                                FindByName(categories, old.userId, patch.category)]
                                        ELSE catWritten
                  ELSE UNCHANGED <<transactions, catWritten>>
               /\ result' = [op |-> "update", userId |-> userId, id |-> id,
                             outcome |-> IF stored THEN "ok" ELSE "MongooseValidationError",
                             category |-> NoCategory, prediction |-> NotCalled]

\* ------------------------------------------------- TransactionService.delete
Delete(userId, id) ==
    /\ nops < MaxOps
    /\ UNCHANGED concVars
    /\ nops' = nops + 1
    /\ UNCHANGED <<categories, nextId>>
    /\ IF ~Found(transactions, userId, id)
       THEN /\ result' = [op |-> "delete", userId |-> userId, id |-> id,
                          outcome |-> "NotFoundError",
                          category |-> NoCategory, prediction |-> NotCalled]
            /\ UNCHANGED <<transactions, budgets, catWritten>>
       ELSE LET old == transactions[id]
                r == IF old.type = "expense"
                     THEN UpdateSpent(budgets, BudgetKey(userId, old.category, old.date),
                                      0 - old.amount)
                     ELSE [ok |-> TRUE, budgets |-> budgets]
            IN /\ budgets' = r.budgets
               /\ IF r.ok
                  THEN /\ transactions' = Remove(transactions, id)
                       /\ catWritten' = Remove(catWritten, id)
                  ELSE UNCHANGED <<transactions, catWritten>>
               /\ result' = [op |-> "delete", userId |-> userId, id |-> id,
                             outcome |-> IF r.ok THEN "ok" ELSE "MongooseValidationError",
                             category |-> NoCategory, prediction |-> NotCalled]

\* --------------------------------------------------- CategoryService.create
CategoryCreate(userId, name) ==
    /\ nops < MaxOps
    /\ UNCHANGED concVars
    /\ nops' = nops + 1
    /\ UNCHANGED <<transactions, nextId, budgets, catWritten>>
    /\ IF FindByName(categories, userId, name)
       THEN /\ UNCHANGED categories
            /\ result' = [op |-> "categoryCreate", userId |-> userId, id |-> 0,
                          outcome |-> "ValidationError",
                          category |-> name, prediction |-> NotCalled]
       ELSE /\ categories' = categories \cup {<<userId, name>>}
            /\ result' = [op |-> "categoryCreate", userId |-> userId, id |-> 0,
                          outcome |-> "ok",
                          category |-> name, prediction |-> NotCalled]

\* --------------------------------------------------- CategoryService.delete
\* called on the id of a stored category <<owner, name>>
CategoryDelete(userId, owner, name) ==
    /\ nops < MaxOps
    /\ UNCHANGED concVars
    /\ <<owner, name>> \in categories
    /\ nops' = nops + 1
    /\ UNCHANGED <<transactions, nextId, budgets, catWritten>>
    /\ IF owner # userId \/ name \in DefaultCategories
       THEN /\ UNCHANGED categories
            /\ result' = [op |-> "categoryDelete", userId |-> userId, id |-> 0,
                          outcome |-> "ValidationError",
                          category |-> name, prediction |-> NotCalled]
       ELSE /\ categories' = categories \ {<<owner, name>>}
            /\ result' = [op |-> "categoryDelete", userId |-> userId, id |-> 0,
                          outcome |-> "ok",
                          category |-> name, prediction |-> NotCalled]

\* ------------------------------------------------------------------- Next
SuppliedCategories == {NoCategory, "Other Expense", "Groceries"}

DoCreate ==
    /\ \E u \in Users, t \in Types, a \in Amounts, d \in Dates,
          c \in SuppliedCategories :
           IF c = NoCategory
           THEN \E p \in Predictions : Create(u, t, a, d, c, p)
           ELSE Create(u, t, a, d, c, Unavailable)
    /\ UNCHANGED <<cacheVars, scoreVars, sweepVars, goalVars>>

\* ids a caller can name: the ids issued so far and one id never issued
\* (all ids never issued behave alike)
KnownIds == {i \in TxnIds : i <= nextId}

DoUpdate ==
    /\ \E u \in Users, i \in KnownIds, p \in Patches : Update(u, i, p)
    /\ UNCHANGED <<cacheVars, scoreVars, sweepVars, goalVars>>

DoDelete ==
    /\ \E u \in Users, i \in KnownIds : Delete(u, i)
    /\ UNCHANGED <<cacheVars, scoreVars, sweepVars, goalVars>>

DoCategoryCreate ==
    /\ \E u \in Users, n \in CatNames : CategoryCreate(u, n)
    /\ UNCHANGED <<cacheVars, scoreVars, sweepVars, goalVars>>

DoCategoryDelete ==
    /\ \E u \in Users, o \in Users, n \in CatNames : CategoryDelete(u, o, n)
    /\ UNCHANGED <<cacheVars, scoreVars, sweepVars, goalVars>>

Next ==
    \/ DoCreate
    \/ DoUpdate
    \/ DoDelete
    \/ DoCategoryCreate
    \/ DoCategoryDelete

Spec == Init /\ [][Next]_vars

\* ---------------------------------------------------------------------
\* PUT bodies that carry fields the route does not validate
\* ---------------------------------------------------------------------
\* transactionRepository.findByUserId: the ids the query matches
FindByUserId(txns, userId, filters) ==
    {i \in DOMAIN txns :
        /\ txns[i].userId = userId
        /\ filters.type # NoType => txns[i].type = filters.type
        /\ filters.category # NoCategory => txns[i].category = filters.category}

\* req.query of GET /transactions
Filters == [type : Types \cup {NoType}, category : CatNames \cup {NoCategory}]

\* The PUT route checks amount, description, date, category, notes and
\* paymentMethod; type and userId reach $set unchecked.
BodyPatches ==
    LET checked == [amount : {NoAmount}, category : PatchCategories,
                    date : {NoDate}, type : {NoType, "transfer"}]
    IN checked \cup
       [userId : Users, amount : {NoAmount}, category : PatchCategories,
        date : {NoDate}, type : {NoType}]

BodyUpdate ==
    /\ \E u \in Users, i \in KnownIds, p \in BodyPatches : Update(u, i, p)
    /\ UNCHANGED <<cacheVars, scoreVars, sweepVars, goalVars>>

NextBody ==
    \/ DoCreate
    \/ BodyUpdate
    \/ DoDelete

SpecBody == Init /\ [][NextBody]_vars


\* ======================================================================
\* Concurrent execution.  Node runs the handlers on one event loop; a
\* handler gives up control at every await, so each step below is the
\* code between two awaits and steps of different requests interleave.
\* ======================================================================

\* inputs of the concurrent requests
ConcUsers == {"u1"}
ConcAmounts == {MaxAmount}
ConcCategories == {"Other Expense", NoCategory}
ConcPredictions == {Unavailable}
ConcPatches ==
    {pt \in Patches : /\ pt.type = NoType
                      /\ pt.category = NoCategory
                      /\ pt.amount \in ConcAmounts \cup {NoAmount}}

\* a new request runs on the first free task
FirstFree(p) == ~InFlight(p) /\ \A q \in Procs : q < p => InFlight(q)

PendingInserts ==
    Cardinality({q \in Procs : procs[q].op = "create"
                               /\ procs[q].pc \in {"c_validate", "c_predict", "c_insert"}})

\* request p enters the event loop with locals rec
Begin(p, rec) ==
    [q \in Procs |->
        IF q = p THEN [rec EXCEPT !.overlap = \E r \in Procs \ {p} : InFlight(r)]
        ELSE IF InFlight(q) THEN [procs[q] EXCEPT !.overlap = TRUE]
        ELSE procs[q]]

\* request p returns or throws
Finish(p, outcome) ==
    [procs EXCEPT ![p] = [IdleProc EXCEPT
        !.op = procs[p].op, !.pc = "done", !.outcome = outcome,
        !.userId = procs[p].userId, !.id = procs[p].id,
        !.pre = procs[p].pre, !.overlap = procs[p].overlap]]

\* p calls Budget.updateSpent(key, delta) and continues at ret afterwards
CallUpdateSpent(pr, key, delta, ret) ==
    [pr EXCEPT !.pc = "b_find", !.key = key, !.delta = delta,
               !.row = NullRow, !.ret = ret]

ForgetObservation(p) ==
    IF p \in observed.during THEN NoObservation ELSE observed

StartCreate(p, userId, type, amount, date, category) ==
    /\ FirstFree(p)
    /\ nops < MaxRequests
    /\ nextId + PendingInserts <= MaxTxn
    /\ nops' = nops + 1
    /\ procs' = Begin(p, [IdleProc EXCEPT
            !.op = "create",
            !.pc = IF category = NoCategory THEN "c_predict" ELSE "c_validate",
            !.userId = userId,
            !.supplied = category,
            !.doc = [userId |-> userId, type |-> type, amount |-> amount,
                     category |-> FinalCategory(type, category, Unavailable),
                     categorySource |-> FinalSource(category, Unavailable),
                     date |-> date]])
    /\ observed' = ForgetObservation(p)
    /\ UNCHANGED <<transactions, nextId, budgets, categories, applied, seqVars>>

\* await categoryRepository.findByName
CreateValidate(p) ==
    /\ procs[p].pc = "c_validate"
    /\ procs' = IF CategoryRejected(categories, procs[p].userId, procs[p].supplied)
                THEN Finish(p, "ValidationError")
                ELSE [procs EXCEPT ![p].pc = "c_insert"]
    /\ UNCHANGED <<transactions, nextId, budgets, categories, applied, observed,
                   nops, seqVars>>

\* await mlService.predictCategory
CreatePredict(p, prediction) ==
    /\ procs[p].pc = "c_predict"
    /\ procs' = [procs EXCEPT
            ![p].pc = "c_insert",
            ![p].prediction = prediction,
            ![p].doc.category = FinalCategory(procs[p].doc.type, NoCategory, prediction),
            ![p].doc.categorySource = FinalSource(NoCategory, prediction)]
    /\ UNCHANGED <<transactions, nextId, budgets, categories, applied, observed,
                   nops, seqVars>>

\* await transactionRepository.create
CreateInsert(p) ==
    LET pr == procs[p] IN
    /\ pr.pc = "c_insert"
    /\ IF ~SchemaValid(pr.doc)
       THEN /\ procs' = Finish(p, "MongooseValidationError")
            /\ UNCHANGED <<transactions, catWritten, nextId>>
       ELSE /\ transactions' = Insert(transactions, nextId, pr.doc)
            /\ catWritten' = Insert(catWritten, nextId,
                                    FindByName(categories, pr.userId, pr.doc.category))
            /\ nextId' = nextId + 1
            /\ procs' = IF pr.doc.type = "expense"
                        THEN [procs EXCEPT ![p] =
                                CallUpdateSpent([pr EXCEPT !.id = nextId],
                                                BudgetKey(pr.userId, pr.doc.category,
                                                          pr.doc.date),
                                                pr.doc.amount, "c_ret")]
                        ELSE [procs EXCEPT ![p] =
                                [Finish(p, "ok")[p] EXCEPT !.id = nextId]]
    /\ UNCHANGED <<budgets, categories, applied, observed, nops, result>>

\* Budget.getOrCreate: await this.findOne
BudgetFind(p) ==
    LET pr == procs[p] IN
    /\ pr.pc = "b_find"
    /\ procs' = IF pr.key \in DOMAIN budgets
                THEN [procs EXCEPT ![p].row = budgets[pr.key].spent, ![p].pc = "b_save"]
                ELSE [procs EXCEPT ![p].row = NullRow, ![p].pc = "b_create"]
    /\ UNCHANGED <<transactions, nextId, budgets, categories, applied, observed,
                   nops, seqVars>>

\* Budget.getOrCreate: await this.create; the unique index on
\* (userId, category, month, year) rejects a second row for the key
BudgetCreate(p) ==
    LET pr == procs[p] IN
    /\ pr.pc = "b_create"
    /\ IF pr.key \in DOMAIN budgets
       THEN /\ procs' = Finish(p, "MongoServerError")
            /\ UNCHANGED budgets
       ELSE /\ budgets' = GetOrCreate(budgets, pr.key)
            /\ procs' = [procs EXCEPT ![p].row = 0, ![p].pc = "b_save"]
    /\ UNCHANGED <<transactions, nextId, categories, applied, observed, nops, seqVars>>

\* budget.spent = (budget.spent || 0) + amount; budget.save(): validates,
\* then writes the modified path with $set
BudgetSave(p) ==
    LET pr == procs[p]
        s == pr.row + pr.delta
    IN
    /\ pr.pc = "b_save"
    /\ IF ~SpentValid(s)
       THEN /\ procs' = Finish(p, "MongooseValidationError")
            /\ UNCHANGED <<budgets, applied>>
       ELSE /\ budgets' = IF pr.delta = 0 THEN budgets
                          ELSE [budgets EXCEPT ![pr.key].spent = s]
            /\ applied' = Insert(applied, pr.key,
                                 (IF pr.key \in DOMAIN applied THEN applied[pr.key] ELSE 0)
                                    + pr.delta)
            /\ procs' =
                IF pr.ret = "c_ret" THEN Finish(p, "ok")
                ELSE IF pr.ret = "u_apply"
                THEN LET newAmount == IF TruthyAmount(pr.patch.amount)
                                      THEN pr.patch.amount ELSE pr.doc.amount
                         newCategory == IF TruthyCategory(pr.patch.category)
                                        THEN pr.patch.category ELSE pr.doc.category
                         newDate == IF pr.patch.date # NoDate
                                    THEN pr.patch.date ELSE pr.doc.date
                     IN [procs EXCEPT ![p] =
                            CallUpdateSpent(pr, BudgetKey(pr.userId, newCategory, newDate),
                                            newAmount, "u_set")]
                ELSE [procs EXCEPT ![p].pc = pr.ret]
    /\ UNCHANGED <<transactions, nextId, categories, observed, nops, seqVars>>

StartUpdate(p, userId, id, patch) ==
    /\ FirstFree(p)
    /\ nops < MaxRequests
    /\ nops' = nops + 1
    /\ procs' = Begin(p, [IdleProc EXCEPT
            !.op = "update", !.pc = "u_get", !.userId = userId, !.id = id,
            !.patch = patch, !.pre = budgets])
    /\ observed' = ForgetObservation(p)
    /\ UNCHANGED <<transactions, nextId, budgets, categories, applied, seqVars>>

\* const existingTransaction = await this.getById(userId, transactionId)
UpdateGet(p) ==
    LET pr == procs[p] IN
    /\ pr.pc = "u_get"
    /\ procs' =
        IF ~Found(transactions, pr.userId, pr.id) THEN Finish(p, "NotFoundError")
        ELSE LET old == transactions[pr.id] IN
             IF UpdateTouchesBudget(pr.patch) /\ old.type = "expense"
             THEN [procs EXCEPT ![p] =
                     CallUpdateSpent([pr EXCEPT !.doc = old],
                                     BudgetKey(pr.userId, old.category, old.date),
                                     0 - old.amount, "u_apply")]
             ELSE [procs EXCEPT ![p].doc = old, ![p].pc = "u_set"]
    /\ UNCHANGED <<transactions, nextId, budgets, categories, applied, observed,
                   nops, seqVars>>

\* return await transactionRepository.update(transactionId, updateData)
UpdateSet(p) ==
    LET pr == procs[p] IN
    /\ pr.pc = "u_set"
    /\ IF pr.id \notin DOMAIN transactions
       THEN /\ procs' = Finish(p, "NotFoundError")
            /\ UNCHANGED <<transactions, catWritten>>
       ELSE /\ transactions' = [transactions EXCEPT
                                   ![pr.id] = ApplyPatch(transactions[pr.id], pr.patch)]
            /\ catWritten' = IF pr.patch.category # NoCategory
                             THEN [catWritten EXCEPT ![pr.id] =
                                     FindByName(categories, transactions[pr.id].userId,
                                                pr.patch.category)]
                             ELSE catWritten
            /\ procs' = Finish(p, "ok")
    /\ UNCHANGED <<nextId, budgets, categories, applied, observed, nops, result>>

StartDelete(p, userId, id) ==
    /\ FirstFree(p)
    /\ nops < MaxRequests
    /\ nops' = nops + 1
    /\ procs' = Begin(p, [IdleProc EXCEPT
            !.op = "delete", !.pc = "d_get", !.userId = userId, !.id = id])
    /\ observed' = ForgetObservation(p)
    /\ UNCHANGED <<transactions, nextId, budgets, categories, applied, seqVars>>

\* const transaction = await this.getById(userId, transactionId)
DeleteGet(p) ==
    LET pr == procs[p] IN
    /\ pr.pc = "d_get"
    /\ procs' =
        IF ~Found(transactions, pr.userId, pr.id) THEN Finish(p, "NotFoundError")
        ELSE LET old == transactions[pr.id] IN
             IF old.type = "expense"
             THEN [procs EXCEPT ![p] =
                     CallUpdateSpent([pr EXCEPT !.doc = old],
                                     BudgetKey(pr.userId, old.category, old.date),
                                     0 - old.amount, "d_del")]
             ELSE [procs EXCEPT ![p].doc = old, ![p].pc = "d_del"]
    /\ UNCHANGED <<transactions, nextId, budgets, categories, applied, observed,
                   nops, seqVars>>

\* return await transactionRepository.delete(transactionId)
DeleteRemove(p) ==
    LET pr == procs[p] IN
    /\ pr.pc = "d_del"
    /\ IF pr.id \notin DOMAIN transactions
       THEN /\ procs' = Finish(p, "NotFoundError")
            /\ UNCHANGED <<transactions, catWritten>>
       ELSE /\ transactions' = Remove(transactions, pr.id)
            /\ catWritten' = Remove(catWritten, pr.id)
            /\ procs' = Finish(p, "ok")
    /\ UNCHANGED <<nextId, budgets, categories, applied, observed, nops, result>>

\* A reader (Budget.find in AnalyticsService.getBudgetProgress) loads ledger
\* row k while some update is between its start and its return.
ReadRow(k) ==
    LET during == {q \in Procs : procs[q].op = "update" /\ InFlight(q)} IN
    /\ during # {}
    /\ k \in DOMAIN budgets
    /\ observed' = [key |-> k, value |-> budgets[k].spent, during |-> during]
    /\ UNCHANGED <<transactions, nextId, budgets, categories, applied, procs,
                   nops, seqVars>>

ConcStartCreate ==
    /\ \E p \in Procs, u \in ConcUsers, t \in Types, a \in ConcAmounts, d \in Dates,
          c \in ConcCategories : StartCreate(p, u, t, a, d, c)
    /\ UNCHANGED <<cacheVars, scoreVars, sweepVars, goalVars>>
ConcStartUpdate ==
    /\ \E p \in Procs, u \in ConcUsers, i \in KnownIds, pt \in ConcPatches :
           StartUpdate(p, u, i, pt)
    /\ UNCHANGED <<cacheVars, scoreVars, sweepVars, goalVars>>
ConcStartDelete ==
    /\ \E p \in Procs, u \in ConcUsers, i \in KnownIds : StartDelete(p, u, i)
    /\ UNCHANGED <<cacheVars, scoreVars, sweepVars, goalVars>>
ConcCreateValidate ==
    /\ \E p \in Procs : CreateValidate(p)
    /\ UNCHANGED <<cacheVars, scoreVars, sweepVars, goalVars>>
ConcCreatePredict ==
    /\ \E p \in Procs, pr \in ConcPredictions : CreatePredict(p, pr)
    /\ UNCHANGED <<cacheVars, scoreVars, sweepVars, goalVars>>
ConcCreateInsert ==
    /\ \E p \in Procs : CreateInsert(p)
    /\ UNCHANGED <<cacheVars, scoreVars, sweepVars, goalVars>>
ConcBudgetFind ==
    /\ \E p \in Procs : BudgetFind(p)
    /\ UNCHANGED <<cacheVars, scoreVars, sweepVars, goalVars>>
ConcBudgetCreate ==
    /\ \E p \in Procs : BudgetCreate(p)
    /\ UNCHANGED <<cacheVars, scoreVars, sweepVars, goalVars>>
ConcBudgetSave ==
    /\ \E p \in Procs : BudgetSave(p)
    /\ UNCHANGED <<cacheVars, scoreVars, sweepVars, goalVars>>
ConcUpdateGet ==
    /\ \E p \in Procs : UpdateGet(p)
    /\ UNCHANGED <<cacheVars, scoreVars, sweepVars, goalVars>>
ConcUpdateSet ==
    /\ \E p \in Procs : UpdateSet(p)
    /\ UNCHANGED <<cacheVars, scoreVars, sweepVars, goalVars>>
ConcDeleteGet ==
    /\ \E p \in Procs : DeleteGet(p)
    /\ UNCHANGED <<cacheVars, scoreVars, sweepVars, goalVars>>
ConcDeleteRemove ==
    /\ \E p \in Procs : DeleteRemove(p)
    /\ UNCHANGED <<cacheVars, scoreVars, sweepVars, goalVars>>
ConcReadRow ==
    /\ \E k \in DOMAIN budgets : ReadRow(k)
    /\ UNCHANGED <<cacheVars, scoreVars, sweepVars, goalVars>>

NextConc ==
    \/ ConcStartCreate
    \/ ConcStartUpdate
    \/ ConcStartDelete
    \/ ConcCreateValidate
    \/ ConcCreatePredict
    \/ ConcCreateInsert
    \/ ConcBudgetFind
    \/ ConcBudgetCreate
    \/ ConcBudgetSave
    \/ ConcUpdateGet
    \/ ConcUpdateSet
    \/ ConcDeleteGet
    \/ ConcDeleteRemove
    \/ ConcReadRow

SpecConc == Init /\ [][NextConc]_vars

Quiescent == \A p \in Procs : ~InFlight(p)


RECURSIVE SumAmounts(_, _)
SumAmounts(txns, ids) ==
    IF ids = {} THEN 0
    ELSE LET i == CHOOSE x \in ids : TRUE
         IN txns[i].amount + SumAmounts(txns, ids \ {i})

\* ======================================================================
\* Analytics reads and the Redis cache (AnalyticsService, RedisClient)
\* ======================================================================
MaxReads == 2

\* the ids of the stored transactions of userId dated from startDate to endDate
\* (Transaction.getByDateRange)
GetByDateRange(txns, userId, startDate, endDate) ==
    {i \in DOMAIN txns : /\ txns[i].userId = userId
                         /\ txns[i].date >= startDate
                         /\ txns[i].date <= endDate}

\* first and last day of a month: new Date(year, month - 1, 1) and
\* new Date(year, month, 0, 23, 59, 59)
InMonth(d, year, month) == GetFullYear(d) = year /\ GetMonth(d) = month

\* transactionRepository.getMonthlySummary: every transaction that is not an
\* income counts as an expense
MonthlySummary(txns, userId, year, month) ==
    LET ids == {i \in DOMAIN txns : txns[i].userId = userId
                                    /\ InMonth(txns[i].date, year, month)}
        totalIncome == SumAmounts(txns, {i \in ids : txns[i].type = "income"})
        totalExpenses == SumAmounts(txns, {i \in ids : txns[i].type # "income"})
    IN [totalIncome |-> totalIncome,
        totalExpenses |-> totalExpenses,
        savings |-> totalIncome - totalExpenses,
        transactionCount |-> Cardinality(ids)]

\* Transaction.getCategoryTotals: one group per category ($sort orders the
\* groups; the groups themselves are what is modelled)
CategoryTotals(txns, userId, startDate, endDate, type) ==
    LET ids == {i \in GetByDateRange(txns, userId, startDate, endDate) :
                    type = NoType \/ txns[i].type = type}
    IN {[_id |-> c,
         total |-> SumAmounts(txns, {i \in ids : txns[i].category = c}),
         count |-> Cardinality({i \in ids : txns[i].category = c})] :
        c \in {txns[i].category : i \in ids}}

\* `analytics:monthly:${userId}:${year}:${month}`
MonthlyKey(userId, year, month) ==
    [fn |-> "monthly", userId |-> userId, a |-> year, b |-> month, type |-> "-"]

\* `analytics:category:${userId}:${startDate}:${endDate}:${type || 'all'}`
CategoryKey(userId, startDate, endDate, type) ==
    [fn |-> "category", userId |-> userId, a |-> startDate, b |-> endDate,
     type |-> IF type = NoType THEN "all" ELSE type]

\* the aggregate a cache key stands for, computed from the transaction log
Aggregate(txns, key) ==
    IF key.fn = "monthly"
    THEN MonthlySummary(txns, key.userId, key.a, key.b)
    ELSE CategoryTotals(txns, key.userId, key.a, key.b,
                        IF key.type = "all" THEN NoType ELSE key.type)

\* JSON.stringify / JSON.parse of an aggregate
Stringify(value) == <<"json", value>>
Parse(string) == string[2]

\* what a call of RedisClient.get comes back with
Returned(value) == [thrown |-> FALSE, isNull |-> FALSE, value |-> value]
ReturnedNull == [thrown |-> FALSE, isNull |-> TRUE, value |-> Null]
Threw == [thrown |-> TRUE, isNull |-> TRUE, value |-> Null]

\* RedisClient.get with the try / catch left out
RedisGetUnguarded(client, store, key, fails) ==
    IF client = "none" THEN ReturnedNull
    ELSE IF fails THEN Threw
    ELSE IF key \in DOMAIN store THEN Returned(Parse(store[key])) ELSE ReturnedNull

\* RedisClient.get: null without a client, null when the command fails,
\* null when the key is absent
RedisGet(client, store, key, fails) ==
    IF client = "none" THEN ReturnedNull
    ELSE IF fails THEN ReturnedNull
    ELSE IF key \in DOMAIN store THEN Returned(Parse(store[key])) ELSE ReturnedNull

\* the seconds an analytics entry is kept: redisClient.set(cacheKey, summary, 300)
CacheTtl == 300

\* a key set without EX: it never expires
ExpiredNever(t, at) == FALSE

\* Redis drops a key once its expiry second is reached
Expired(t, at) == t >= at

\* the entries of the keyspace a command issued at second t can see
Live(store, expiry, t) ==
    [k \in {j \in DOMAIN store : ~Expired(t, expiry[j])} |-> store[k]]

\* client.setEx(key, expirationSeconds, stringValue): the expiry afterwards
SetEx(client, expiry, key, t, expirationSeconds, fails) ==
    IF client = "none" \/ fails THEN expiry
    ELSE [k \in DOMAIN expiry \cup {key} |->
             IF k = key THEN t + expirationSeconds ELSE expiry[k]]

\* RedisClient.set with an expiry: the keyspace afterwards
RedisSet(client, store, key, value, fails) ==
    IF client = "none" \/ fails THEN store
    ELSE [k \in DOMAIN store \cup {key} |->
             IF k = key THEN Stringify(value) ELSE store[k]]

\* how the get of a read went
GetOutcome(client, store, key, fails) ==
    IF client = "none" THEN "noclient"
    ELSE IF fails THEN "error"
    ELSE IF key \in DOMAIN store THEN "hit" ELSE "miss"

\* The body that AnalyticsService.getMonthlySummary and getCategoryBreakdown
\* share: they differ in the key and in the repository query only.
Read(key, getFails, setFails) ==
    /\ nreads < MaxReads
    /\ nreads' = nreads + 1
    /\ LET live == Live(cache, expireAt, clock)
           cached == RedisGet(redis, live, key, getFails)
           got == GetOutcome(redis, live, key, getFails)
       IN IF cached.thrown
          THEN /\ reply' = [fn |-> key.fn, key |-> key, get |-> got, set |-> "-",
                            outcome |-> "error", value |-> Null]
               /\ UNCHANGED <<cache, expireAt>>
          ELSE IF ~cached.isNull
          THEN /\ reply' = [fn |-> key.fn, key |-> key, get |-> got, set |-> "-",
                            outcome |-> "ok", value |-> cached.value]
               /\ UNCHANGED <<cache, expireAt>>
          ELSE LET fresh == Aggregate(transactions, key)
               IN /\ cache' = RedisSet(redis, cache, key, fresh, setFails)
                  /\ expireAt' = SetEx(redis, expireAt, key, clock, CacheTtl, setFails)
                  /\ reply' = [fn |-> key.fn, key |-> key, get |-> got,
                               set |-> IF redis = "none" THEN "noclient"
                                       ELSE IF setFails THEN "error" ELSE "ok",
                               outcome |-> "ok", value |-> fresh]

GetMonthlySummary(userId, year, month, getFails, setFails) ==
    /\ Read(MonthlyKey(userId, year, month), getFails, setFails)
    /\ UNCHANGED <<redis, clock, ledgerLog, ledgerVars, concVars, scoreVars, sweepVars,
                   goalVars>>

GetCategoryBreakdown(userId, startDate, endDate, type, getFails, setFails) ==
    /\ Read(CategoryKey(userId, startDate, endDate, type), getFails, setFails)
    /\ UNCHANGED <<redis, clock, ledgerLog, ledgerVars, concVars, scoreVars, sweepVars,
                   goalVars>>

\* RedisClient.connect at server start
RedisConnect ==
    /\ redis = "none"
    /\ redis' = "ready"
    /\ UNCHANGED <<cache, reply, nreads, clock, expireAt, ledgerLog, ledgerVars,
                   concVars, scoreVars, sweepVars, goalVars>>

\* the 300 second expiry set by setEx removes an entry
Expire(key) ==
    /\ key \in DOMAIN cache
    /\ cache' = [k \in DOMAIN cache \ {key} |-> cache[k]]
    /\ expireAt' = [k \in DOMAIN expireAt \ {key} |-> expireAt[k]]
    /\ UNCHANGED <<redis, reply, nreads, clock, ledgerLog, ledgerVars, concVars,
                   scoreVars, sweepVars, goalVars>>

\* inputs of the cache specification
CacheUsers == {"u1"}
CacheMonths == {1, 2}
CacheRange == <<0, 59>>
\* the type filter of a breakdown: absent
CacheTypes == {NoType}
\* patches that move the date and nothing else
CachePatches ==
    {p \in Patches : /\ p.type = NoType /\ p.category = NoCategory
                     /\ p.amount = NoAmount /\ p.date # NoDate}

CacheMonthly ==
    \E u \in CacheUsers, m \in CacheMonths, gf \in BOOLEAN, sf \in BOOLEAN :
        GetMonthlySummary(u, 2024, m, gf, sf)

CacheBreakdown ==
    \E u \in CacheUsers, t \in CacheTypes, gf \in BOOLEAN, sf \in BOOLEAN :
        GetCategoryBreakdown(u, CacheRange[1], CacheRange[2], t, gf, sf)

CacheExpire == \E k \in DOMAIN cache : Expire(k)

CacheCreate ==
    /\ \E u \in CacheUsers, t \in Types, d \in Dates :
           Create(u, t, MaxAmount, d, NoCategory, Unavailable)
    /\ UNCHANGED <<cacheVars, scoreVars, sweepVars, goalVars>>

CacheUpdate ==
    /\ \E u \in CacheUsers, i \in DOMAIN transactions, p \in CachePatches :
           Update(u, i, p)
    /\ UNCHANGED <<cacheVars, scoreVars, sweepVars, goalVars>>

CacheDelete ==
    /\ \E u \in CacheUsers, i \in DOMAIN transactions : Delete(u, i)
    /\ UNCHANGED <<cacheVars, scoreVars, sweepVars, goalVars>>

NextCache ==
    \/ RedisConnect
    \/ CacheMonthly
    \/ CacheBreakdown
    \/ CacheExpire
    \/ CacheCreate
    \/ CacheUpdate
    \/ CacheDelete

SpecCache == Init /\ [][NextCache]_vars


\* ======================================================================
\* Health score and forecast pipelines (HealthScoreService, ForecastService)
\* ======================================================================
MaxCalls == 3

\* startDate.setDate(startDate.getDate() - 90)
WindowDays == 90
\* transactions.length < 30
MinHistory == 30

\* what the ML service does with one request: answers with data the schema
\* accepts, answers with data the schema rejects, or fails / times out
MlOutcomes == {"ok", "invalid", "error"}

ForecastTypes == {"7day", "30day"}

\* mlService.computeHealthScore / generateForecast with a silent fallback
\* in place of `throw error`
MlCallFallback(ml) == [thrown |-> FALSE, valid |-> TRUE]

\* mlService.computeHealthScore / generateForecast: response.data, or the
\* error thrown again
MlCall(ml) ==
    IF ml = "error" THEN [thrown |-> TRUE, valid |-> FALSE]
    ELSE [thrown |-> FALSE, valid |-> ml = "ok"]

\* a save that replaces the owner's previous record of the same kind
SaveUpsert(records, doc) ==
    IF \E i \in 1..Len(records) : records[i].userId = doc.userId /\ records[i].kind = doc.kind
    THEN [i \in 1..Len(records) |->
             IF records[i].userId = doc.userId /\ records[i].kind = doc.kind
             THEN doc ELSE records[i]]
    ELSE Append(records, doc)

\* new FinancialHealth(...).save() / new Forecast(...).save(): an insert
Save(records, doc) == Append(records, doc)

\* the transactions of the trailing window, as both services load them
TrailingWindow(txns, userId, t) == GetByDateRange(txns, userId, t - WindowDays, t)

\* HealthScoreService.computeAndStore
ComputeAndStore(txns, records, t, userId, ml) ==
    LET healthData == MlCall(ml)
    IN IF healthData.thrown
       THEN [outcome |-> "MLError", predictor |-> ml, records |-> records]
       ELSE IF ~healthData.valid
       THEN [outcome |-> "ValidationError", predictor |-> ml, records |-> records]
       ELSE [outcome |-> "ok", predictor |-> ml,
             records |-> Save(records, [userId |-> userId, kind |-> "health", date |-> t])]

\* ForecastService.generateAndStore
GenerateAndStore(txns, records, t, userId, forecastType, ml) ==
    IF Cardinality(TrailingWindow(txns, userId, t)) < MinHistory
    THEN [outcome |-> "InsufficientHistory", predictor |-> NotCalled, records |-> records]
    ELSE LET forecastData == MlCall(ml)
         IN IF forecastData.thrown
            THEN [outcome |-> "MLError", predictor |-> ml, records |-> records]
            ELSE IF ~forecastData.valid
            THEN [outcome |-> "ValidationError", predictor |-> ml, records |-> records]
            ELSE [outcome |-> "ok", predictor |-> ml,
                  records |-> Save(records, [userId |-> userId, kind |-> forecastType,
                                             date |-> t])]

\* POST /health/compute
HealthCompute(userId, ml) ==
    /\ ncalls < MaxCalls
    /\ ncalls' = ncalls + 1
    /\ LET r == ComputeAndStore(transactions, healthScores, now, userId, ml)
       IN /\ healthScores' = r.records
          /\ call' = [op |-> "compute", userId |-> userId, outcome |-> r.outcome,
                      predictor |-> r.predictor]
    /\ UNCHANGED <<now, forecasts, ledgerVars, concVars, cacheVars, sweepVars, goalVars>>

\* POST /forecast/generate
ForecastGenerate(userId, forecastType, ml) ==
    /\ ncalls < MaxCalls
    /\ ncalls' = ncalls + 1
    /\ LET r == GenerateAndStore(transactions, forecasts, now, userId, forecastType, ml)
       IN /\ forecasts' = r.records
          /\ call' = [op |-> "generate", userId |-> userId, outcome |-> r.outcome,
                      predictor |-> r.predictor]
    /\ UNCHANGED <<now, healthScores, ledgerVars, concVars, cacheVars, sweepVars, goalVars>>

\* time passes: a day, or the length of the window
TickSteps == {1, WindowDays}

Tick(days) ==
    /\ ncalls < MaxCalls
    /\ ncalls' = ncalls + 1
    /\ now' = now + days
    /\ UNCHANGED <<healthScores, forecasts, call, ledgerVars, concVars, cacheVars,
                   sweepVars, goalVars>>

\* A transaction log of n expenses of u1 spread over the last d days.
History(n, d) ==
    [i \in 1..n |-> [userId |-> "u1", type |-> "expense", amount |-> MaxAmount,
                     category |-> "Other Expense", categorySource |-> "user",
                     date |-> Today - ((i - 1) % d)]]

\* (number of transactions, number of days they are spread over)
HistoryShapes ==
    {<<MinHistory - 1, MinHistory - 1>>, <<MinHistory, MinHistory>>, <<MinHistory, 1>>}

\* the ledger that creating the transactions of a log one by one leaves
LedgerOf(txns) ==
    LET expenses == {i \in DOMAIN txns : txns[i].type = "expense"}
        keys == {BudgetKey(txns[i].userId, txns[i].category, txns[i].date) : i \in expenses}
    IN [k \in keys |->
           [amount |-> 0,
            spent |-> SumAmounts(txns, {i \in expenses :
                         BudgetKey(txns[i].userId, txns[i].category, txns[i].date) = k})]]

\* The server after u1 has entered a transaction history.
InitScore ==
    /\ \E shape \in HistoryShapes : transactions = History(shape[1], shape[2])
    /\ nextId = Len(transactions) + 1
    /\ budgets = LedgerOf(transactions)
    /\ categories = Users \X DefaultCategories
    /\ result = NoResult
    /\ nops = 0
    /\ catWritten = [i \in DOMAIN transactions |-> TRUE]
    /\ procs = [p \in Procs |-> IdleProc]
    /\ applied = << >>
    /\ observed = NoObservation
    /\ redis = "none"
    /\ cache = << >>
    /\ reply = NoReply
    /\ nreads = 0
    /\ clock = 0
    /\ expireAt = << >>
    /\ ledgerLog = <<[at |-> 0, transactions |-> transactions]>>
    /\ now = Today
    /\ healthScores = << >>
    /\ forecasts = << >>
    /\ call = NoCall
    /\ ncalls = 0
    /\ sweep = NoSweep
    /\ nruns = 0
    /\ goals = << >>
    /\ goalResult = NoGoalResult
    /\ ngoalOps = 0

ScoreCompute == \E u \in Users, ml \in MlOutcomes : HealthCompute(u, ml)

ScoreGenerate ==
    \E u \in Users, ft \in ForecastTypes, ml \in MlOutcomes : ForecastGenerate(u, ft, ml)

ScoreTick == \E d \in TickSteps : Tick(d)

NextScore ==
    \/ ScoreCompute
    \/ ScoreGenerate
    \/ ScoreTick

SpecScore == InitScore /\ [][NextScore]_vars


\* ======================================================================
\* Goals (GoalService, goalSchema)
\* ======================================================================
MaxGoalOps == 3
MaxGoals == 1

GoalTypes == {"spending_cap", "savings_target"}
GoalStatuses == {"active", "completed", "failed", "paused"}
\* target values a goal can carry; 100 is a multiple of each positive one,
\* so that currentValue / targetValue * 100 is a whole number
TargetValues == {0, 1, 2}
\* (startDate, endDate) of a goal, as day numbers
GoalWindows == {<<31, 59>>}

\* the result of 0 / 0
NaN == -1

Min(a, b) == IF a <= b THEN a ELSE b
Max(a, b) == IF a >= b THEN a ELSE b

\* (currentValue / targetValue) * 100 clamped by Math.min(..., 100): a
\* division by zero gives Infinity, clamped to 100, or NaN for 0 / 0, which
\* Math.min hands on
ProgressOf(currentValue, targetValue) ==
    IF targetValue = 0
    THEN IF currentValue = 0 THEN NaN ELSE 100
    ELSE Min((currentValue * 100) \div targetValue, 100)

\* progress >= 100, false for NaN
Reaches100(progress) == progress # NaN /\ progress >= 100

\* the status rule of updateProgress without its test of the current status
NextStatusAnyStatus(status, progress) ==
    IF Reaches100(progress) THEN "completed" ELSE status

\* if (goal.progress >= 100 && goal.status === 'active') goal.status = 'completed'
NextStatus(status, progress) ==
    IF Reaches100(progress) /\ status = "active" THEN "completed" ELSE status

\* a value that adds the window's expenses to what the goal already holds
CurrentValueAccumulated(txns, goal) ==
    LET ids == GetByDateRange(txns, goal.userId, goal.startDate, goal.endDate)
    IN goal.currentValue + SumAmounts(txns, {i \in ids : txns[i].type = "expense"})

\* the value updateProgress computes from the transactions of the goal's window
CurrentValueOf(txns, goal) ==
    LET ids == GetByDateRange(txns, goal.userId, goal.startDate, goal.endDate)
        income == SumAmounts(txns, {i \in ids : txns[i].type = "income"})
        expenses == SumAmounts(txns, {i \in ids : txns[i].type = "expense"})
    IN IF goal.type \in {"spending_cap", "category_limit"} THEN expenses
       ELSE IF goal.type = "savings_target" THEN income - expenses
       ELSE 0

\* goalSchema: what goal.save() accepts
GoalValid(goal) ==
    /\ goal.targetValue >= 0
    /\ goal.currentValue >= 0
    /\ goal.progress # NaN /\ goal.progress >= 0 /\ goal.progress <= 100
    /\ goal.status \in GoalStatuses

\* GoalService.getById finds the goal
GoalFound(gs, userId, id) == id \in DOMAIN gs /\ gs[id].userId = userId

\* GoalService.updateProgress on a goal that getById found: the document
\* after the assignments, and the collection after save()
UpdateProgress(txns, gs, id) ==
    LET goal == gs[id]
        currentValue == Max(CurrentValueOf(txns, goal), 0)
        progress == ProgressOf(currentValue, goal.targetValue)
        doc == [goal EXCEPT !.currentValue = currentValue,
                            !.progress = progress,
                            !.status = NextStatus(goal.status, progress)]
    IN IF GoalValid(doc)
       THEN [outcome |-> "ok", goals |-> [gs EXCEPT ![id] = doc]]
       ELSE [outcome |-> "ValidationError", goals |-> gs]

\* the largest _id in the collection, 0 when it is empty
MaxId(gs) ==
    IF DOMAIN gs = {} THEN 0 ELSE CHOOSE m \in DOMAIN gs : \A k \in DOMAIN gs : k <= m

\* the _id of the k-th document inserted from now on: never issued before
FreshId(gs, k) == Max(MaxId(gs), ngoalOps) + k

\* GoalService.create
GoalCreate(userId, type, targetValue, startDate, endDate) ==
    /\ ngoalOps < MaxGoalOps
    /\ ngoalOps' = ngoalOps + 1
    /\ LET id == FreshId(goals, 1)
           doc == [userId |-> userId, type |-> type, targetValue |-> targetValue,
                   currentValue |-> 0, progress |-> 0, status |-> "active",
                   startDate |-> startDate, endDate |-> endDate,
                   source |-> "user"]
       IN /\ goals' = [i \in DOMAIN goals \cup {id} |-> IF i = id THEN doc ELSE goals[i]]
          /\ goalResult' = [op |-> "create", id |-> id, outcome |-> "ok",
                            repeats |-> FALSE]
    /\ UNCHANGED <<ledgerVars, concVars, cacheVars, scoreVars, sweepVars>>

\* the fields of a PUT body; a field that is not supplied holds its No value
NoGoalPatch == [targetValue |-> NoAmount, currentValue |-> NoAmount,
                progress |-> NoAmount, status |-> "-"]

StatusPatch(status) == [NoGoalPatch EXCEPT !.status = status]

\* Object.assign(goal, updateData): every supplied field replaces the goal's,
\* no other field is touched
ApplyGoalPatch(goal, patch) ==
    [goal EXCEPT
        !.targetValue = IF patch.targetValue # NoAmount THEN patch.targetValue ELSE @,
        !.currentValue = IF patch.currentValue # NoAmount THEN patch.currentValue ELSE @,
        !.progress = IF patch.progress # NoAmount THEN patch.progress ELSE @,
        !.status = IF patch.status # "-" THEN patch.status ELSE @]

\* GoalService.update
GoalUpdate(userId, id, patch) ==
    /\ ngoalOps < MaxGoalOps
    /\ ngoalOps' = ngoalOps + 1
    /\ IF ~GoalFound(goals, userId, id)
       THEN /\ goalResult' = [op |-> "update", id |-> id,
                              outcome |-> "Goal not found", repeats |-> FALSE]
            /\ UNCHANGED goals
       ELSE LET doc == ApplyGoalPatch(goals[id], patch)
            IN IF GoalValid(doc)
               THEN /\ goals' = [goals EXCEPT ![id] = doc]
                    /\ goalResult' = [op |-> "update", id |-> id, outcome |-> "ok",
                                      repeats |-> FALSE]
               ELSE /\ goalResult' = [op |-> "update", id |-> id,
                                      outcome |-> "ValidationError", repeats |-> FALSE]
                    /\ UNCHANGED goals
    /\ UNCHANGED <<ledgerVars, concVars, cacheVars, scoreVars, sweepVars>>

\* this call of updateProgress on goal id follows a call of updateProgress
\* that found the same goal, with no other GoalService call in between
Repeats(id) ==
    /\ goalResult.op = "updateProgress"
    /\ goalResult.id = id
    /\ goalResult.outcome # "Goal not found"

\* GoalService.updateProgress
GoalUpdateProgress(userId, id) ==
    /\ ngoalOps < MaxGoalOps
    /\ ngoalOps' = ngoalOps + 1
    /\ IF ~GoalFound(goals, userId, id)
       THEN /\ goalResult' = [op |-> "updateProgress", id |-> id,
                              outcome |-> "Goal not found", repeats |-> FALSE]
            /\ UNCHANGED goals
       ELSE LET r == UpdateProgress(transactions, goals, id)
            IN /\ goals' = r.goals
               /\ goalResult' = [op |-> "updateProgress", id |-> id,
                                 outcome |-> r.outcome, repeats |-> Repeats(id)]
    /\ UNCHANGED <<ledgerVars, concVars, cacheVars, scoreVars, sweepVars>>

\* inputs of the goal specification
GoalUsers == {"u1"}

DoGoalCreate ==
    /\ Cardinality(DOMAIN goals) < MaxGoals
    /\ \E u \in GoalUsers, t \in GoalTypes, tv \in TargetValues, w \in GoalWindows :
           GoalCreate(u, t, tv, w[1], w[2])

DoGoalUpdate ==
    \E u \in Users, i \in DOMAIN goals, st \in GoalStatuses \ {"completed"} :
        GoalUpdate(u, i, StatusPatch(st))

DoGoalUpdateProgress ==
    \E u \in Users, i \in DOMAIN goals \cup {ngoalOps + 1} : GoalUpdateProgress(u, i)

GoalTxnCreate ==
    /\ \E u \in GoalUsers, t \in Types, d \in Dates :
           Create(u, t, MaxAmount, d, NoCategory, Unavailable)
    /\ UNCHANGED <<cacheVars, scoreVars, sweepVars, goalVars>>

GoalTxnDelete ==
    /\ \E u \in GoalUsers, i \in DOMAIN transactions : Delete(u, i)
    /\ UNCHANGED <<cacheVars, scoreVars, sweepVars, goalVars>>

NextGoal ==
    \/ DoGoalCreate
    \/ DoGoalUpdate
    \/ DoGoalUpdateProgress
    \/ GoalTxnCreate
    \/ GoalTxnDelete

SpecGoal == Init /\ [][NextGoal]_vars

\* ---------------------------------------------------------------------
\* Goals of every type, edited by their owner through PUT /goals/:id
\* ---------------------------------------------------------------------
\* goalSchema: the enum of type
AllGoalTypes == {"spending_cap", "savings_target", "category_limit", "custom"}

\* PUT bodies: the route validates targetValue and status and lets every
\* other field through to Object.assign
EditPatches ==
    [targetValue : {NoAmount, 2},
     currentValue : {NoAmount, 1},
     progress : {NoAmount, 50},
     status : {"-", "paused"}] \ {NoGoalPatch}

EditGoalCreate ==
    /\ Cardinality(DOMAIN goals) < MaxGoals
    /\ \E u \in GoalUsers, t \in AllGoalTypes, w \in GoalWindows :
           GoalCreate(u, t, 1, w[1], w[2])

EditGoalUpdate ==
    \E u \in GoalUsers, i \in DOMAIN goals, p \in EditPatches : GoalUpdate(u, i, p)

EditGoalUpdateProgress ==
    \E u \in Users, i \in DOMAIN goals : GoalUpdateProgress(u, i)

\* a transaction of u1 as TransactionService.create stores it
EditTxn(type, category, date) ==
    [userId |-> "u1", type |-> type, amount |-> MaxAmount, category |-> category,
     categorySource |-> "user", date |-> date]

\* The ledgers the goals are followed on: none, one expense in the goals'
\* window, two expenses of the window in two categories, an income in the
\* window with an expense before it.  No transaction is written while the
\* goals are edited.
EditLedgers ==
    { << >>,
      <<EditTxn("expense", "Other Expense", 31)>>,
      <<EditTxn("expense", "Other Expense", 31), EditTxn("expense", "Groceries", 31)>>,
      <<EditTxn("income", "Other Income", 31), EditTxn("expense", "Other Expense", 30)>> }

InitGoalEdit ==
    /\ transactions \in EditLedgers
    /\ nextId = Len(transactions) + 1
    /\ budgets = LedgerOf(transactions)
    /\ categories = (Users \X DefaultCategories) \cup {<<"u1", "Groceries">>}
    /\ result = NoResult
    /\ nops = 0
    /\ catWritten = [i \in DOMAIN transactions |-> TRUE]
    /\ procs = [p \in Procs |-> IdleProc]
    /\ applied = << >>
    /\ observed = NoObservation
    /\ redis = "none"
    /\ cache = << >>
    /\ reply = NoReply
    /\ nreads = 0
    /\ clock = 0
    /\ expireAt = << >>
    /\ ledgerLog = <<[at |-> 0, transactions |-> transactions]>>
    /\ now = Today
    /\ healthScores = << >>
    /\ forecasts = << >>
    /\ call = NoCall
    /\ ncalls = 0
    /\ sweep = NoSweep
    /\ nruns = 0
    /\ goals = << >>
    /\ goalResult = NoGoalResult
    /\ ngoalOps = 0

NextGoalEdit ==
    \/ EditGoalCreate
    \/ EditGoalUpdate
    \/ EditGoalUpdateProgress

SpecGoalEdit == InitGoalEdit /\ [][NextGoalEdit]_vars


\* ---------------------------------------------------------------------
\* Goal recommendations (GoalService.generateAIRecommendations)
\* ---------------------------------------------------------------------
\* startDate.setDate(startDate.getDate() - 60)
RecommendWindowDays == 60
\* if (transactions.length < 10)
MinRecommendHistory == 10

\* goals the Goal Predictor proposes: one the schema accepts, one it rejects
\* (a negative targetValue)
GoodProposal ==
    [type |-> "spending_cap", targetValue |-> 1, startDate |-> Today,
     endDate |-> Today + MinHistory]
BadProposal == [GoodProposal EXCEPT !.targetValue = 0 - 1]

ProposalLists ==
    {<< >>, <<GoodProposal>>, <<GoodProposal, GoodProposal>>,
     <<GoodProposal, BadProposal>>, <<BadProposal, GoodProposal>>}

\* what the POST to the predictor does: fail, or answer with proposals
GoalResponses ==
    {[fails |-> TRUE, goals |-> << >>]}
        \cup {[fails |-> FALSE, goals |-> g] : g \in ProposalLists}

\* mlService.generateGoals: response.data, or { goals: [] } on any error
GenerateGoals(ml) == IF ml.fails THEN << >> ELSE ml.goals

\* a history test that lets every owner through
HistorySufficientAlways(n) == TRUE

\* the negation of `transactions.length < 10`
HistorySufficient(n) == ~(n < MinRecommendHistory)

\* new Goal({...rec, userId, source: 'ai_recommended'}): the other fields
\* take the schema's defaults
ProposedGoal(userId, rec) ==
    [userId |-> userId, type |-> rec.type, targetValue |-> rec.targetValue,
     currentValue |-> 0, progress |-> 0, status |-> "active",
     startDate |-> rec.startDate, endDate |-> rec.endDate,
     source |-> "ai_recommended"]

\* GoalService.generateAIRecommendations: the loop saves the proposals in
\* order; the first save() that rejects throws, and the catch around the
\* whole body returns { goals: [] }
GenerateAIRecommendations(txns, gs, t, userId, ml) ==
    LET n == Cardinality(GetByDateRange(txns, userId, t - RecommendWindowDays, t))
        recs == GenerateGoals(ml)
        bad == {i \in 1..Len(recs) : ~GoalValid(ProposedGoal(userId, recs[i]))}
        saved == {i \in 1..Len(recs) : \A j \in bad : i < j}
        stored == [id \in DOMAIN gs \cup {FreshId(gs, i) : i \in saved} |->
                      IF id \in DOMAIN gs THEN gs[id]
                      ELSE ProposedGoal(userId, recs[id - FreshId(gs, 0)])]
    IN IF ~HistorySufficient(n)
       THEN [predictor |-> NotCalled, returned |-> {}, goals |-> gs]
       ELSE [predictor |-> IF ml.fails THEN "failed" ELSE "answered",
             returned |-> IF bad = {} THEN {FreshId(gs, i) : i \in saved} ELSE {},
             goals |-> stored]

\* POST /goals/generate-recommendations
GenerateRecommendations(userId, ml) ==
    /\ ngoalOps < MaxGoalOps
    /\ ngoalOps' = ngoalOps + 1
    /\ LET r == GenerateAIRecommendations(transactions, goals, now, userId, ml)
       IN /\ goals' = r.goals
          /\ goalResult' = [op |-> "generateRecommendations", id |-> 0,
                            outcome |-> "ok", repeats |-> FALSE,
                            userId |-> userId, predictor |-> r.predictor,
                            returned |-> r.returned]
    /\ UNCHANGED <<ledgerVars, concVars, cacheVars, scoreVars, sweepVars>>

\* (number of transactions, number of days they are spread over)
RecommendShapes ==
    {<<MinRecommendHistory - 1, MinRecommendHistory - 1>>,
     <<MinRecommendHistory, MinRecommendHistory>>,
     <<MinRecommendHistory, 1>>}

\* The server after u1 has entered a transaction history.
InitRecommend ==
    /\ \E shape \in RecommendShapes : transactions = History(shape[1], shape[2])
    /\ nextId = Len(transactions) + 1
    /\ budgets = LedgerOf(transactions)
    /\ categories = Users \X DefaultCategories
    /\ result = NoResult
    /\ nops = 0
    /\ catWritten = [i \in DOMAIN transactions |-> TRUE]
    /\ procs = [p \in Procs |-> IdleProc]
    /\ applied = << >>
    /\ observed = NoObservation
    /\ redis = "none"
    /\ cache = << >>
    /\ reply = NoReply
    /\ nreads = 0
    /\ clock = 0
    /\ expireAt = << >>
    /\ ledgerLog = <<[at |-> 0, transactions |-> transactions]>>
    /\ now = Today
    /\ healthScores = << >>
    /\ forecasts = << >>
    /\ call = NoCall
    /\ ncalls = 0
    /\ sweep = NoSweep
    /\ nruns = 0
    /\ goals = << >>
    /\ goalResult = NoGoalResult
    /\ ngoalOps = 0

RecommendGenerate ==
    \E u \in Users, ml \in GoalResponses : GenerateRecommendations(u, ml)

\* time passes: a day, or more than the recommendation window
RecommendTick == \E d \in TickSteps : Tick(d)

NextRecommend ==
    \/ RecommendGenerate
    \/ RecommendTick
    \/ DoGoalCreate

SpecRecommend == InitRecommend /\ [][NextRecommend]_vars


\* ======================================================================
\* Scheduler: the health, forecast and goal-progress sweeps
\* (HealthScoreJob, ForecastJob, GoalProgressJob)
\* ======================================================================
MaxRuns == 2

Jobs == {"health", "forecast", "goal"}

\* what the ML service does with one request of a sweep
SweepMlOutcomes == {"ok", "error"}

\* the orders in which find() can return the elements of a set
RECURSIVE Orders(_)
Orders(S) ==
    IF S = {} THEN {<< >>}
    ELSE UNION {{<<x>> \o rest : rest \in Orders(S \ {x})} : x \in S}

\* User.find({ isActive: true }) / Goal.find({ status: 'active' })
Selected(job, gs) ==
    IF job = "goal" THEN {g \in DOMAIN gs : gs[g].status = "active"} ELSE Users

\* the loop body without its try / catch: a failure of the item ends the run
\* in the outer catch
ItemFailedAborts(run) ==
    [run EXCEPT !.status = "aborted"]

\* the catch of the loop body: count the failure and go on with the next item
ItemFailed(run) ==
    [run EXCEPT !.errorCount = @ + 1]

\* a catch that logs the failure and counts nothing
ItemSucceededUncounted(run, item) ==
    [run EXCEPT !.succeeded = Append(@, item)]

\* the end of the try block: successCount++
ItemSucceeded(run, item) ==
    [run EXCEPT !.successCount = @ + 1, !.succeeded = Append(@, item)]

\* the cron callback starts: the items are selected, or find() rejects and
\* the outer catch logs the job error
SweepStart(job, items, selectFails) ==
    /\ nruns < MaxRuns
    /\ sweep.status # "running"
    /\ nruns' = nruns + 1
    /\ sweep' = IF selectFails
                THEN [NoSweep EXCEPT !.job = job, !.status = "aborted"]
                ELSE [NoSweep EXCEPT !.job = job, !.items = items, !.status = "running"]
    /\ UNCHANGED <<ledgerVars, concVars, cacheVars, scoreVars, goalVars>>

\* one pass of the loop body: the pipeline is invoked for the next item
SweepItem(ml) ==
    /\ sweep.status = "running"
    /\ sweep.idx < Len(sweep.items)
    /\ LET item == sweep.items[sweep.idx + 1]
           run == [sweep EXCEPT !.idx = @ + 1, !.invoked = Append(@, item)]
       IN CASE sweep.job = "health" ->
                 LET r == ComputeAndStore(transactions, healthScores, now, item, ml)
                 IN /\ healthScores' = r.records
                    /\ sweep' = IF r.outcome = "ok" THEN ItemSucceeded(run, item)
                                ELSE ItemFailed(run)
                    /\ UNCHANGED <<forecasts, goals>>
            [] sweep.job = "forecast" ->
                 LET r == GenerateAndStore(transactions, forecasts, now, item, "30day", ml)
                     seen == IF r.outcome = "InsufficientHistory"
                             THEN [run EXCEPT !.skipped = Append(@, item)]
                             ELSE run
                 IN /\ forecasts' = r.records
                    /\ sweep' = IF r.outcome = "ok" THEN ItemSucceeded(seen, item)
                                ELSE ItemFailed(seen)
                    /\ UNCHANGED <<healthScores, goals>>
            [] OTHER ->
                 LET r == IF GoalFound(goals, goals[item].userId, item)
                          THEN UpdateProgress(transactions, goals, item)
                          ELSE [outcome |-> "Goal not found", goals |-> goals]
                 IN /\ goals' = r.goals
                    /\ sweep' = IF r.outcome = "ok" THEN ItemSucceeded(run, item)
                                ELSE ItemFailed(run)
                    /\ UNCHANGED <<healthScores, forecasts>>
    /\ UNCHANGED <<now, call, ncalls, nruns, goalResult, ngoalOps, ledgerVars,
                   concVars, cacheVars>>

\* the loop is over: the completion report is logged
SweepFinish ==
    /\ sweep.status = "running"
    /\ sweep.idx = Len(sweep.items)
    /\ sweep' = [sweep EXCEPT !.status = "done",
                              !.report = [total |-> Len(sweep.items),
                                          success |-> sweep.successCount,
                                          errors |-> sweep.errorCount]]
    /\ UNCHANGED <<nruns, ledgerVars, concVars, cacheVars, scoreVars, goalVars>>

\* Goals as GoalService.create and update leave them: an active goal of u1
\* and a goal of u2, who has no transactions.  The period of the goals ends
\* before the first transaction of the history.
SweepGoals(targetValue, status) ==
    LET goal(u, t, tv, st) ==
            [userId |-> u, type |-> t, targetValue |-> tv, currentValue |-> 0,
             progress |-> 0, status |-> st, startDate |-> Today - WindowDays,
             endDate |-> Today - MinHistory, source |-> "user"]
    IN <<goal("u1", "spending_cap", 1, "active"),
         goal("u2", "spending_cap", targetValue, status)>>

\* The server with a transaction history and two goals.
InitSweep ==
    /\ \E shape \in HistoryShapes : transactions = History(shape[1], shape[2])
    /\ nextId = Len(transactions) + 1
    /\ budgets = LedgerOf(transactions)
    /\ categories = Users \X DefaultCategories
    /\ result = NoResult
    /\ nops = 0
    /\ catWritten = [i \in DOMAIN transactions |-> TRUE]
    /\ procs = [p \in Procs |-> IdleProc]
    /\ applied = << >>
    /\ observed = NoObservation
    /\ redis = "none"
    /\ cache = << >>
    /\ reply = NoReply
    /\ nreads = 0
    /\ clock = 0
    /\ expireAt = << >>
    /\ ledgerLog = <<[at |-> 0, transactions |-> transactions]>>
    /\ now = Today
    /\ healthScores = << >>
    /\ forecasts = << >>
    /\ call = NoCall
    /\ ncalls = 0
    /\ sweep = NoSweep
    /\ nruns = 0
    /\ \E tv \in {0, 1}, st \in {"active", "paused"} : goals = SweepGoals(tv, st)
    /\ goalResult = NoGoalResult
    /\ ngoalOps = 2

DoSweepStart ==
    \E job \in Jobs, selectFails \in BOOLEAN :
        \E items \in Orders(Selected(job, goals)) : SweepStart(job, items, selectFails)

DoSweepItem == \E ml \in SweepMlOutcomes : SweepItem(ml)

NextSweep ==
    \/ DoSweepStart
    \/ DoSweepItem
    \/ SweepFinish

SpecSweep == InitSweep /\ [][NextSweep]_vars

\* The callback is an async function on the event loop: a loop pass or the
\* report that can run does run.
SpecSweepLive ==
    /\ InitSweep
    /\ [][NextSweep]_vars
    /\ WF_vars(DoSweepItem)
    /\ WF_vars(SweepFinish)


\* ---------------------------------------------------------------------
\* Concurrent deletes on a ledger that matches its log
\* ---------------------------------------------------------------------
\* two expenses of u1 in one bucket
DeleteLog ==
    [i \in 1..2 |-> [userId |-> "u1", type |-> "expense", amount |-> MaxAmount,
                     category |-> "Other Expense", categorySource |-> "auto",
                     date |-> 30]]

\* The server after u1 has created the two expenses, one call at a time.
InitDelete ==
    /\ transactions = DeleteLog
    /\ nextId = Len(DeleteLog) + 1
    /\ budgets = LedgerOf(DeleteLog)
    /\ categories = Users \X DefaultCategories
    /\ result = NoResult
    /\ nops = 0
    /\ catWritten = [i \in DOMAIN transactions |-> TRUE]
    /\ procs = [p \in Procs |-> IdleProc]
    /\ applied = << >>
    /\ observed = NoObservation
    /\ redis = "none"
    /\ cache = << >>
    /\ reply = NoReply
    /\ nreads = 0
    /\ clock = 0
    /\ expireAt = << >>
    /\ ledgerLog = <<[at |-> 0, transactions |-> transactions]>>
    /\ now = Today
    /\ healthScores = << >>
    /\ forecasts = << >>
    /\ call = NoCall
    /\ ncalls = 0
    /\ sweep = NoSweep
    /\ nruns = 0
    /\ goals = << >>
    /\ goalResult = NoGoalResult
    /\ ngoalOps = 0

\* Every ledger row a delete adjusts exists, so Budget.getOrCreate never
\* creates one here.
NextDelete ==
    \/ ConcStartDelete
    \/ ConcDeleteGet
    \/ ConcBudgetFind
    \/ ConcBudgetSave
    \/ ConcDeleteRemove

SpecDelete == InitDelete /\ [][NextDelete]_vars

\* ------------------------------------------------ the cache under the clock
\* the seconds around an entry's expiry: the last of its life, the expiry
\* itself, the one after
AroundExpiry == {0 - 1, 0, 1}

\* time passes, up to a second around the expiry of an entry
ClockTick(key, offset) ==
    /\ key \in DOMAIN expireAt
    /\ expireAt[key] + offset > clock
    /\ clock' = expireAt[key] + offset
    /\ UNCHANGED <<redis, cache, reply, nreads, expireAt, ledgerLog, ledgerVars,
                   concVars, scoreVars, sweepVars, goalVars>>

\* the history of the transaction log once a write has returned
Logged(log, t, txns) ==
    IF txns = log[Len(log)].transactions THEN log
    ELSE Append(log, [at |-> t, transactions |-> txns])

TtlTick == \E k \in DOMAIN expireAt, offset \in AroundExpiry : ClockTick(k, offset)

\* reads of either owner, of either month, that Redis answers
TtlMonthly ==
    \E u \in Users, m \in CacheMonths : GetMonthlySummary(u, 2024, m, FALSE, FALSE)

\* the day the writes of this specification are dated: 1 February 2024
TtlDate == 31

TtlCreate ==
    /\ \E u \in CacheUsers :
           Create(u, "expense", MaxAmount, TtlDate, NoCategory, Unavailable)
    /\ ledgerLog' = Logged(ledgerLog, clock, transactions')
    /\ UNCHANGED <<redis, cache, reply, nreads, clock, expireAt, scoreVars, sweepVars,
                   goalVars>>

\* The server once RedisClient.connect has returned, with an empty log.
InitTtl ==
    /\ transactions = << >>
    /\ nextId = 1
    /\ budgets = << >>
    /\ categories = Users \X DefaultCategories
    /\ result = NoResult
    /\ nops = 0
    /\ catWritten = [i \in DOMAIN transactions |-> TRUE]
    /\ procs = [p \in Procs |-> IdleProc]
    /\ applied = << >>
    /\ observed = NoObservation
    /\ redis = "ready"
    /\ cache = << >>
    /\ reply = NoReply
    /\ nreads = 0
    /\ clock = 0
    /\ expireAt = << >>
    /\ ledgerLog = <<[at |-> 0, transactions |-> transactions]>>
    /\ now = Today
    /\ healthScores = << >>
    /\ forecasts = << >>
    /\ call = NoCall
    /\ ncalls = 0
    /\ sweep = NoSweep
    /\ nruns = 0
    /\ goals = << >>
    /\ goalResult = NoGoalResult
    /\ ngoalOps = 0

NextTtl ==
    \/ TtlMonthly
    \/ TtlTick
    \/ TtlCreate

SpecTtl == InitTtl /\ [][NextTtl]_vars



\* ======================================================================
\* Properties
\* ======================================================================
TxnKey(txn) == BudgetKey(txn.userId, txn.category, txn.date)

\* sum of amount over the stored expense transactions of ledger bucket key
ExpenseTotal(txns, key) ==
    SumAmounts(txns, {i \in DOMAIN txns : txns[i].type = "expense" /\ TxnKey(txns[i]) = key})

\* this step is a call of a TransactionService handler named op
Called(op) == nops' = nops + 1 /\ result'.op = op

\* C1: after any sequence of create, update and delete run one at a time,
\* every ledger row's spent equals the sum of amount over the owner's stored
\* expense transactions of that (category, month, year).
C1_LedgerMatchesLog ==
    \A k \in DOMAIN budgets : budgets[k].spent = ExpenseTotal(transactions, k)

\* C2: when requests adjust a ledger row concurrently, no adjustment is
\* lost: once all requests have returned, every row's spent is the sum of
\* the adjustments that updateSpent reported as made.
C2_NoLostAdjustment ==
    Quiescent =>
        \A k \in DOMAIN budgets :
            budgets[k].spent = (IF k \in DOMAIN applied THEN applied[k] ELSE 0)

\* one step of update that moves an expense transaction into another month
C3_Step ==
    \A i \in DOMAIN transactions :
        (/\ Called("update") /\ result'.id = i /\ result'.outcome = "ok"
         /\ transactions[i].type = "expense" /\ transactions'[i].type = "expense"
         /\ <<GetMonth(transactions[i].date), GetFullYear(transactions[i].date)>>
              # <<GetMonth(transactions'[i].date), GetFullYear(transactions'[i].date)>>)
        => LET oldKey == TxnKey(transactions[i])
               newKey == TxnKey(transactions'[i])
           IN /\ Spent(budgets', oldKey) = Spent(budgets, oldKey) - transactions[i].amount
              /\ Spent(budgets', newKey) = Spent(budgets, newKey) + transactions'[i].amount

\* C3: an update of an expense transaction that moves its date into another
\* month takes exactly the old amount off the old row and puts exactly the
\* new amount on the new row, whatever else the patch holds.
C3_DateMoveRelocates == [][C3_Step]_vars

\* one step of update that changes the direction of a transaction
C4_Step ==
    \A i \in DOMAIN transactions :
        (/\ Called("update") /\ result'.id = i /\ result'.outcome = "ok"
         /\ transactions[i].type # transactions'[i].type)
        => LET old == transactions[i]
               new == transactions'[i]
               minus(k) == IF old.type = "expense" /\ k = TxnKey(old) THEN old.amount ELSE 0
               plus(k) == IF new.type = "expense" /\ k = TxnKey(new) THEN new.amount ELSE 0
           IN \A k \in {TxnKey(old), TxnKey(new)} :
                 Spent(budgets', k) = Spent(budgets, k) - minus(k) + plus(k)

\* C4: an update that changes the direction takes the old amount off the
\* old row if the transaction was an expense, and puts the new amount on
\* the new row if and only if it is an expense afterwards.
C4_DirectionChangeAdjusts == [][C4_Step]_vars

\* C5: a reader that loads a ledger row while an update is in progress sees
\* the row's spent as it was before the update began or as it is after the
\* update completed, never a value in between.  (Stated for an update that
\* no other request overlaps, so that no other writer explains the value.)
C5_ReaderSeesNoIntermediate ==
    \A p \in Procs :
        (/\ procs[p].op = "update" /\ procs[p].pc = "done" /\ procs[p].outcome = "ok"
         /\ ~procs[p].overlap
         /\ p \in observed.during)
        => observed.value \in {Spent(procs[p].pre, observed.key),
                               Spent(budgets, observed.key)}

\* the last call was create with no category and the predictor failed
PredictorFailedOnCreate ==
    /\ result.op = "create"
    /\ result.category = NoCategory
    /\ result.prediction = Unavailable

\* C6: create with no category, the Category Predictor failing or timing
\* out: the call returns without error and the transaction is stored.
C6_PredictorFailureDoesNotAbort ==
    PredictorFailedOnCreate =>
        /\ result.outcome = "ok"
        /\ result.id \in DOMAIN transactions
        /\ transactions[result.id].userId = result.userId

C6_Witness ==
    /\ PredictorFailedOnCreate
    /\ result.outcome = "ok"
    /\ result.id \in DOMAIN transactions
    /\ transactions[result.id].type = "income"

\* C7: create with no category, the predictor failing: the stored category
\* is Other Income for an income and Other Expense for an expense, and the
\* category source is neither user nor predicted.
C7_DefaultCategoryByDirection ==
    (PredictorFailedOnCreate /\ result.outcome = "ok")
    => LET t == transactions[result.id]
       IN /\ t.category = (IF t.type = "income" THEN "Other Income" ELSE "Other Expense")
          /\ t.categorySource \notin {"user", "ai"}

\* one step of create with a supplied category the owner does not have
C8_Step ==
    (/\ Called("create")
     /\ result'.category # NoCategory
     /\ ~FindByName(categories, result'.userId, result'.category))
    => /\ result'.outcome = "ValidationError"
       /\ transactions' = transactions
       /\ budgets' = budgets

\* C8: create with a supplied category that does not exist for the owner
\* fails with ValidationError, stores no transaction and creates or changes
\* no ledger row.
C8_UnknownCategoryRejected == [][C8_Step]_vars

C8_Witness ==
    /\ result.op = "create"
    /\ result.outcome = "ValidationError"
    /\ result.category = "Groceries"
    /\ ~FindByName(categories, result.userId, result.category)
    /\ FindByName(categories, CHOOSE u \in Users : u # result.userId, "Groceries")

\* one step of update or delete on a missing or foreign id
C9_Step ==
    (/\ Called("update") \/ Called("delete")
     /\ \/ result'.id \notin DOMAIN transactions
        \/ transactions[result'.id].userId # result'.userId)
    => /\ result'.outcome = "NotFoundError"
       /\ transactions' = transactions
       /\ budgets' = budgets

\* C9: update and delete on an id that does not exist, or whose transaction
\* belongs to another owner, fail with NotFoundError and leave every
\* transaction and every ledger row unchanged.
C9_NotFoundLeavesStateUnchanged == [][C9_Step]_vars

C9_Witness ==
    /\ result.op = "update"
    /\ result.outcome = "NotFoundError"
    /\ result.id \in DOMAIN transactions
    /\ transactions[result.id].userId # result.userId
    /\ transactions[result.id].type = "expense"

\* C10: every stored transaction's category named a category of its owner
\* when it was written (by create from the request, the predictor or the
\* default, or by update).
C10_CategoryExistedWhenWritten ==
    \A i \in DOMAIN transactions : catWritten[i]

\* this step is an AnalyticsService read
ReadStep == nreads' = nreads + 1

\* one read made after some create, update or delete has completed
C11_Step ==
    (ReadStep /\ nops > 0 /\ reply'.outcome = "ok")
    => reply'.value = Aggregate(transactions, reply'.key)

\* C11: once a create, update or delete has completed, the next monthly
\* summary or category breakdown read for a period covering the transaction's
\* date returns the aggregate computed from the current transaction log,
\* never an entry cached before the write.
C11_ReadAfterWriteIsFresh == [][C11_Step]_vars

\* one read for which the cache gave nothing
C12_Step ==
    (ReadStep /\ reply'.get \in {"noclient", "error", "miss"})
    => /\ reply'.outcome = "ok"
       /\ reply'.value = Aggregate(transactions, reply'.key)

\* C12: whatever the state of the cache backend (never connected, get
\* fails, set fails, key absent), getMonthlySummary and getCategoryBreakdown
\* return without error the aggregate computed from the stored transactions
\* at the time of the read.
C12_CacheIsAdvisory == [][C12_Step]_vars

C12_Witness ==
    /\ reply.fn = "monthly"
    /\ reply.get = "error"
    /\ reply.set = "error"
    /\ reply.outcome = "ok"
    /\ reply.key \in DOMAIN cache
    /\ reply.value.transactionCount > 0

\* s is t or t cut short at its end
IsPrefix(s, t) == Len(s) <= Len(t) /\ \A i \in 1..Len(s) : s[i] = t[i]

\* one call of compute or generate in which the predictor fails
C13_Step ==
    (/\ ncalls' = ncalls + 1
     /\ call'.op \in {"compute", "generate"}
     /\ call'.predictor = "error")
    => /\ call'.outcome = "MLError"
       /\ healthScores' = healthScores
       /\ forecasts' = forecasts

\* C13: when the external predictor fails or times out during compute or
\* generate, the error propagates to the caller as the failure of that one
\* computation and the call persists no Health Score or Forecast Record.
C13_PredictorFailurePropagates == [][C13_Step]_vars

C13_Witness ==
    /\ call.op = "generate"
    /\ call.predictor = "error"
    /\ call.outcome = "MLError"
    /\ Len(forecasts) > 0
    /\ Len(healthScores) > 0

\* one step of the pipelines, seen from the two collections
C14_Step ==
    /\ IsPrefix(healthScores, healthScores')
    /\ IsPrefix(forecasts, forecasts')
    /\ (ncalls' = ncalls + 1 /\ now' = now /\ call'.op = "compute" /\ call'.outcome = "ok")
       => /\ Len(healthScores') = Len(healthScores) + 1
          /\ healthScores'[Len(healthScores')].userId = call'.userId
          /\ healthScores'[Len(healthScores')].date = now
    /\ (ncalls' = ncalls + 1 /\ now' = now /\ call'.op = "generate" /\ call'.outcome = "ok")
       => /\ Len(forecasts') = Len(forecasts) + 1
          /\ forecasts'[Len(forecasts')].userId = call'.userId
          /\ forecasts'[Len(forecasts')].date = now

\* C14: Health Score Records and Forecast Records are append-only: each
\* successful compute or generate adds exactly one new record dated at the
\* time of the call, and no operation modifies or removes a record that was
\* persisted before.
C14_RecordsAppendOnly == [][C14_Step]_vars

C14_Witness ==
    /\ Len(healthScores) >= 2
    /\ healthScores[1].userId = healthScores[2].userId
    /\ Len(forecasts) >= 1
    /\ call.outcome = "ok"

\* the number of days of the trailing window on which the owner has a
\* transaction
DaysOfHistory(txns, userId, t) ==
    Cardinality({txns[i].date : i \in TrailingWindow(txns, userId, t)})

\* one call of generate
C15_Step ==
    (ncalls' = ncalls + 1 /\ now' = now /\ call'.op = "generate")
    => IF DaysOfHistory(transactions, call'.userId, now) < MinHistory
       THEN /\ call'.outcome = "InsufficientHistory"
            /\ call'.predictor = NotCalled
            /\ forecasts' = forecasts
       ELSE call'.predictor # NotCalled

\* C15: generate fails with the insufficient-history error, without calling
\* the Forecast Predictor and without persisting a record, exactly when the
\* owner's trailing 90-day window holds fewer than 30 days of transactions.
C15_InsufficientHistoryBelow30Days == [][C15_Step]_vars

\* this step is a call of GoalService.updateProgress
ProgressStep == ngoalOps' = ngoalOps + 1 /\ goalResult'.op = "updateProgress"

\* one call of updateProgress, seen from the status of every goal
C19_Step ==
    ProgressStep =>
        \A g \in DOMAIN goals :
            LET old == goals[g].status
                new == goals'[g].status
            IN /\ new # old => (old = "active" /\ new = "completed" /\ g = goalResult'.id)
               /\ (g = goalResult'.id /\ goalResult'.outcome = "ok")
                  => ((new # old) <=> (old = "active" /\ Reaches100(goals'[g].progress)))

\* C19: the only status change updateProgress makes is active to completed,
\* and it makes it exactly when the recomputed progress reaches 100 on an
\* active goal; a paused, completed or failed goal keeps its status, also
\* when its recomputed progress falls below 100.
C19_OnlyActiveToCompleted == [][C19_Step]_vars

C19_Witness ==
    /\ goalResult.op = "updateProgress"
    /\ goalResult.outcome = "ok"
    /\ goalResult.id \in DOMAIN goals
    /\ goals[goalResult.id].status = "completed"
    /\ goals[goalResult.id].progress # NaN
    /\ goals[goalResult.id].progress < 100

\* one call of updateProgress on a goal of the caller
C20_Step ==
    (ProgressStep /\ goalResult'.outcome # "Goal not found")
    => /\ goalResult'.outcome = "ok"
       /\ LET g == goals'[goalResult'.id]
          IN /\ g.progress \in 0..100
             /\ g.targetValue > 0
                => g.progress * g.targetValue
                      = Min(g.currentValue * 100, 100 * g.targetValue)
       /\ \A tv \in TargetValues, c1 \in 0..MaxTxn, c2 \in 0..MaxTxn :
              (c1 <= c2 /\ ProgressOf(c1, tv) # NaN /\ ProgressOf(c2, tv) # NaN)
              => ProgressOf(c1, tv) <= ProgressOf(c2, tv)

\* C20: after every updateProgress, for every goal the data model admits
\* (targetValue >= 0), progress is a number from 0 to 100 equal to
\* min(currentValue / targetValue * 100, 100), and for a fixed targetValue a
\* larger currentValue never gives a smaller progress.
C20_ProgressClamped == [][C20_Step]_vars

\* a call of updateProgress by the owner that repeats the owner's call
\* before it, the ledger being the same for both
C21_Step ==
    (ProgressStep /\ goalResult'.repeats /\ goalResult'.outcome # "Goal not found"
                  /\ transactions' = transactions)
    => /\ goalResult'.outcome = goalResult.outcome
       /\ goals' = goals

\* C21: updateProgress is idempotent: a second call for the same goal, with
\* no change to the owner's transactions or to the goal since the first,
\* returns as the first did and leaves currentValue, progress and status
\* (the whole goal) as the first call left them.
C21_UpdateProgressIdempotent == [][C21_Step]_vars

\* a repeated call on a goal that the first call completed
C21_Witness ==
    /\ goalResult.op = "updateProgress"
    /\ goalResult.repeats
    /\ goalResult.outcome = "ok"
    /\ goals[goalResult.id].status = "completed"
    /\ goals[goalResult.id].currentValue > 0

\* the owner's expenses dated within the goal's window, all of them or
\* those of one category
WindowExpenses(txns, goal) ==
    {i \in GetByDateRange(txns, goal.userId, goal.startDate, goal.endDate) :
        txns[i].type = "expense"}

CategoryExpenses(txns, goal, category) ==
    {i \in WindowExpenses(txns, goal) : txns[i].category = category}

\* one call of updateProgress that stored the goal
C22_Step ==
    (ProgressStep /\ goalResult'.outcome = "ok")
    => LET g == goals'[goalResult'.id]
       IN /\ g.type = "spending_cap"
             => g.currentValue = SumAmounts(transactions, WindowExpenses(transactions, g))
          /\ g.type = "category_limit"
             => \E c \in CatNames :
                    g.currentValue = SumAmounts(transactions,
                                                CategoryExpenses(transactions, g, c))

\* C22: updateProgress sets the currentValue of a category_limit goal to the
\* sum of the owner's expenses of the goal's window that belong to one
\* category, the goal's; expenses of other categories do not contribute.
\* For spending_cap every expense of the window contributes.
C22_CategoryLimitCountsOneCategory == [][C22_Step]_vars

\* one call of updateProgress on a goal of the caller
C23_Step ==
    (ProgressStep /\ goalResult'.outcome # "Goal not found")
    => LET id == goalResult'.id
       IN goals[id].type = "custom" => goals'[id].currentValue = goals[id].currentValue

\* C23: updateProgress does not recompute the currentValue of a custom
\* goal: after the call it is the value the caller last set.
C23_CustomValueKept == [][C23_Step]_vars

\* C26: in every reachable state, after the owner's edits through update
\* and after every updateProgress, the progress of each goal equals
\* currentValue / targetValue * 100 clamped to [0, 100].
C26_ProgressFollowsValues ==
    \A id \in DOMAIN goals :
        /\ goals[id].progress \in 0..100
        /\ goals[id].progress = ProgressOf(goals[id].currentValue, goals[id].targetValue)

\* this step is a call of GoalService.generateAIRecommendations
RecommendStep ==
    ngoalOps' = ngoalOps + 1 /\ goalResult'.op = "generateRecommendations"

\* the owner's transactions of the trailing 60 days
RecentCount(userId) ==
    Cardinality({i \in DOMAIN transactions :
                    /\ transactions[i].userId = userId
                    /\ transactions[i].date >= now - RecommendWindowDays
                    /\ transactions[i].date <= now})

\* one call of generateRecommendations
C24_Step ==
    RecommendStep =>
        LET u == goalResult'.userId
            created == DOMAIN goals' \ DOMAIN goals
        IN /\ goalResult'.outcome = "ok"
           /\ \A id \in DOMAIN goals : id \in DOMAIN goals' /\ goals'[id] = goals[id]
           /\ RecentCount(u) < MinRecommendHistory
              => /\ goalResult'.returned = {}
                 /\ goalResult'.predictor = NotCalled
                 /\ created = {}
           /\ RecentCount(u) >= MinRecommendHistory
              => /\ goalResult'.predictor # NotCalled
                 /\ \A id \in created :
                        goals'[id].source = "ai_recommended" /\ goals'[id].userId = u

\* C24: generateRecommendations for an owner with fewer than 10
\* transactions in the trailing 60 days returns an empty set without error,
\* without calling the Goal Predictor and without creating a Goal; with 10
\* or more it calls the predictor, and every Goal it creates belongs to the
\* owner and has the provenance of a recommendation.
C24_RecommendationsNeedHistory == [][C24_Step]_vars

\* a call skipped for want of recent history, by an owner who holds a
\* recommended goal from an earlier call
C24_Witness ==
    /\ goalResult.op = "generateRecommendations"
    /\ goalResult.predictor = NotCalled
    /\ \E id \in DOMAIN goals :
           goals[id].source = "ai_recommended" /\ goals[id].userId = goalResult.userId

\* one call of generateRecommendations, seen from the Goal collection
C30_Step ==
    RecommendStep => goalResult'.returned = DOMAIN goals' \ DOMAIN goals

\* C30: generateRecommendations returns exactly the Goal records the call
\* persisted: every returned goal is stored and every goal the call stored
\* is returned; when it returns an empty set, the call created no Goal.
C30_ReturnsWhatItStored == [][C30_Step]_vars

\* the transactions an owner holds, and an owner's ledger rows
OwnedBy(txns, userId) ==
    LET ids == {i \in DOMAIN txns : txns[i].userId = userId}
    IN [i \in ids |-> txns[i]]

RowsOf(b, userId) ==
    LET keys == {k \in DOMAIN b : k[1] = userId}
    IN [k \in keys |-> b[k]]

\* one create, update or delete, seen by every other owner
C25_Step ==
    (nops' = nops + 1 /\ result'.op \in {"create", "update", "delete"})
    => \A B \in Users \ {result'.userId} :
          /\ OwnedBy(transactions', B) = OwnedBy(transactions, B)
          /\ RowsOf(budgets', B) = RowsOf(budgets, B)

\* C25: operations invoked for owner A never expose or change owner B's
\* data: getAll(A, filters) returns only transactions owned by A, and after
\* a create, update or delete by A, whatever id and patch fields A
\* supplies, the transactions owned by B and the ledger rows of B are as
\* they were.
C25_OwnersAreIsolated ==
    /\ [](\A u \in Users, f \in Filters :
             \A i \in FindByUserId(transactions, u, f) : transactions[i].userId = u)
    /\ [][C25_Step]_vars

\* one create, update or delete that returned an error
C28_Step ==
    (/\ nops' = nops + 1
     /\ result'.op \in {"create", "update", "delete"}
     /\ result'.outcome # "ok")
    => /\ transactions' = transactions
       /\ \A k \in DOMAIN budgets \cup DOMAIN budgets' :
              Spent(budgets', k) = Spent(budgets, k)

\* C28: create, update and delete are all-or-nothing over the transaction
\* log and the budget ledger: when one of them returns an error, at
\* whichever step, the stored transactions and the spent of every ledger
\* row are as they were before the call.
C28_ErrorLeavesLogAndLedger == [][C28_Step]_vars

\* the only two requests made so far are deletes of one transaction that
\* ran concurrently, and both have returned
TwoDeletesReturned(p, q) ==
    /\ nops = 2
    /\ p # q
    /\ procs[p].op = "delete" /\ procs[q].op = "delete"
    /\ procs[p].pc = "done" /\ procs[q].pc = "done"
    /\ procs[p].overlap /\ procs[q].overlap
    /\ procs[p].id = procs[q].id
    /\ procs[p].id \in DOMAIN DeleteLog

\* C29: of two concurrent delete(owner, id) calls for the same expense
\* transaction exactly one succeeds, the amount is subtracted from the
\* ledger row once, and after both have returned the row's spent is the sum
\* of the remaining expense transactions of the bucket.
C29_ConcurrentDeleteSubtractsOnce ==
    \A p \in Procs, q \in Procs :
        TwoDeletesReturned(p, q) =>
            LET k == TxnKey(DeleteLog[procs[p].id])
            IN /\ (procs[p].outcome = "ok") # (procs[q].outcome = "ok")
               /\ applied[k] = 0 - MaxAmount
               /\ budgets[k].spent = ExpenseTotal(transactions, k)

\* the transaction logs that stood at some second of the CacheTtl seconds
\* before second t
LogsWithin(log, t) ==
    LET inside == {i \in 1..Len(log) : log[i].at >= t - CacheTtl}
        before == {i \in 1..Len(log) : log[i].at <= t - CacheTtl}
        last == {i \in before : \A k \in before : k <= i}
    IN {log[i].transactions : i \in inside \cup last}

\* distinct (owner, year, month) requests never share a cache key
MonthlyKeysApart ==
    \A u1 \in Users, u2 \in Users, m1 \in CacheMonths, m2 \in CacheMonths :
        MonthlyKey(u1, 2024, m1) = MonthlyKey(u2, 2024, m2) => (u1 = u2 /\ m1 = m2)

\* one getMonthlySummary that returned
C27_Step ==
    (ReadStep /\ reply'.fn = "monthly" /\ reply'.outcome = "ok")
    => /\ \E txns \in LogsWithin(ledgerLog, clock) :
              reply'.value = Aggregate(txns, reply'.key)
       /\ reply'.get = "hit" => (expireAt' = expireAt /\ cache' = cache)

\* C27: every value getMonthlySummary(owner, year, month) returns is the
\* aggregate of that owner's transactions of that month as it stood at some
\* second no more than 300 seconds before the read; a hit leaves the entry's
\* expiry alone, and no two (owner, month) requests share a key.
C27_MonthlySummaryStaleWithinTtl == []MonthlyKeysApart /\ [][C27_Step]_vars

\* a hit served an aggregate that a later write had already outdated
C27_Witness ==
    /\ reply.fn = "monthly"
    /\ reply.get = "hit"
    /\ reply.value # Aggregate(transactions, reply.key)
    /\ clock >= ledgerLog[Len(ledgerLog)].at + (CacheTtl - 1)

\* the pipeline has been invoked for the first idx selected items, in their
\* order, once each; at the report it has been invoked for all of them
C16_Invoked ==
    /\ IsPrefix(sweep.invoked, sweep.items)
    /\ Len(sweep.invoked) = sweep.idx
    /\ sweep.status = "done" => sweep.invoked = sweep.items

\* C16: in every run of the health, forecast and goal-progress sweeps, each
\* item selected at the start has its pipeline invoked exactly once, one
\* item at a time, whichever earlier items failed, and the run then reaches
\* its completion report.
C16_EveryItemOnceThenReport ==
    /\ []C16_Invoked
    /\ (sweep.status = "running") ~> (sweep.status = "done")

C16_Witness ==
    /\ sweep.status = "done"
    /\ Len(sweep.items) = 2
    /\ sweep.invoked = sweep.items
    /\ sweep.succeeded = <<sweep.items[2]>>

\* C17: at the end of every sweep run the reported counts satisfy
\* succeeded + failed = attempted = number of items selected, and succeeded
\* is the number of items whose pipeline returned without error.
C17_CountsAddUp ==
    sweep.status = "done" =>
        /\ sweep.report.success + sweep.report.errors = sweep.report.total
        /\ sweep.report.total = Len(sweep.items)
        /\ sweep.report.total = Len(sweep.invoked)
        /\ sweep.report.success = Len(sweep.succeeded)

C17_Witness ==
    /\ sweep.status = "done"
    /\ sweep.job = "goal"
    /\ sweep.report.success = 1
    /\ sweep.report.errors = 1

\* C18: when generate fails with insufficient history for a user during the
\* forecast sweep, the sweep goes on with the next user and does not report
\* that user in the failed count of the run.
C18_SkipIsNotAFailure ==
    (sweep.status = "done" /\ sweep.job = "forecast") =>
        /\ sweep.invoked = sweep.items
        /\ sweep.report.errors
              = Len(sweep.items) - Len(sweep.succeeded) - Len(sweep.skipped)

\* -------------------------------------------------------------- type check
TypeOK ==
    /\ nextId \in 1..(MaxTxn + 1)
    /\ DOMAIN transactions \subseteq TxnIds
    /\ \A i \in DOMAIN transactions :
          /\ transactions[i].userId \in Users
          /\ transactions[i].type \in Types
          /\ transactions[i].amount \in Amounts
          /\ transactions[i].date \in Dates
    /\ \A k \in DOMAIN budgets : budgets[k].spent >= 0

====
